---- MODULE Spec2Model ----
(***************************************************************************)
(* Model of the OAuth2 redirect listener and of the remote token exchange  *)
(* of gmailalert (internal/adapters/emailrepo/gmail/oauth2.go).            *)
(*                                                                         *)
(* Spec        the listener driven by an arbitrary environment: HTTP       *)
(*             requests, a consumer receiving from the two sinks, and      *)
(*             callers of Shutdown (as the package's tests drive it).      *)
(* SpecRemote  the listener driven by OAuth2.loadRemoteToken.              *)
(* SpecLoadToken  OAuth2.LoadToken: the local token file, then the remote  *)
(*             exchange, then OAuth2.Client.                               *)
(* SpecToken   NewGmailClient of the root package (the gmail.go listed in  *)
(*             README.md): token(), getAuthCode and saveToken.             *)
(***************************************************************************)
EXTENDS Integers, Sequences, FiniteSets, TLC

\* ------------------------------------------------------------------ bounds
NumRequests == 2
NumShutdownCallers == 2
NumAlerts == 2

Requests == 1..NumRequests
ShutdownCallers == 1..NumShutdownCallers
Alerts == 1..NumAlerts

\* ------------------------------------------------- inputs (small samples)
\* a request: its method and the url.Values entries of the keys state and code
\* (the list of values given for the key, empty when the key is absent)
Rq(m, s, c) == [method |-> m, state |-> s, code |-> c]
RequestSamples ==
    { Rq("HEAD", <<"state-token">>, <<"abc">>),
      Rq("GET", <<>>, <<"abc">>),
      Rq("GET", <<"other">>, <<"abc">>),
      Rq("GET", <<>>, <<>>),
      Rq("GET", <<"state-token">>, <<>>),
      Rq("GET", <<"state-token">>, <<"">>),
      Rq("GET", <<"state-token">>, <<"abc">>),
      Rq("GET", <<"state-token">>, <<"xyz">>) }
Ports == {1023, 1024, 9999, 65535, 65536}

\* an oauth2.Token, and the pointer to one (<<>> is the nil pointer)
Token(a, t, r, e) == [AccessToken |-> a, TokenType |-> t, RefreshToken |-> r, Expiry |-> e]
ZeroTime == "0001-01-01T00:00:00Z"
NilToken == <<>>
ZeroToken == Token("", "", "", ZeroTime)
ExchangeTokens == { Token("ya29.new", "Bearer", "1//new", "2030-01-01T00:00:00Z"),
                    Token("ya29.other", "Bearer", "", ZeroTime) }
StoredTokens == { Token("old", "Bearer", "1//old", "2020-01-01T00:00:00Z") }

\* what is found at the path OAuth2.TokenFile
AbsentFile == [kind |-> "absent"]
UnreadableFile == [kind |-> "unreadable"]
EmptyFile == [kind |-> "empty"]
GarbageFile == [kind |-> "garbage"]
NullFile == [kind |-> "null"]
JSONFile(doc) == [kind |-> "object", doc |-> doc]
WellFormedDoc == [access_token |-> "ab12.gophercd4567", token_type |-> "Bearer",
                  refresh_token |-> "1//gopher9876",
                  expiry |-> "2022-08-16T12:00:42.516357003-04:00"]
PartialDoc == [access_token |-> "ab12.gophercd4567"]
\* {"access_token":"ab12.fresh","expiry":5}: the decoder fills AccessToken and
\* then fails on the expiry, which is not a JSON string
BadExpiryFile == [kind |-> "badfield", doc |-> [access_token |-> "ab12.fresh"]]
TokenFileSamples == { AbsentFile, UnreadableFile, EmptyFile, GarbageFile, NullFile,
                      JSONFile(WellFormedDoc), JSONFile(PartialDoc) }

\* errors are sequences of strings, <<>> being the nil error
Nil == <<>>
NotReturned == <<"not returned">>
PortError == <<"port must be in the range 1024-65535">>
ExchangeError == <<"oauth2: cannot fetch token">>
NilDereference == <<"panic", "invalid memory address or nil pointer dereference">>
OpenError == <<"open", "no such file or directory">>
ReadError == <<"read", "is a directory">>
DecodeError == <<"json", "cannot decode">>

\* ------------------------------------------------------ program constants
MinPort == 1024
MaxPort == 65535
StatusOK == 200
StatusBadRequest == 400
StatusMethodNotAllowed == 405
StateToken == "state-token"
DefaultPort == 9999
SinkCapMutant == 1 + 1
SinkCap == 1

VARIABLES
    Port,               \* OAuth2RedirectServer.Port (0: no server constructed)
    authCodes,          \* chan string:  [buf: Seq, closed: BOOLEAN]
    authCodeErrors,     \* chan error:   [buf: Seq, closed: BOOLEAN]
    svr,                \* http.Server: "new", "listening", "shutdown"
    las,                \* goroutine running ListenAndServe
    req,                \* req[r]: the request r, or NoRequest
    hpc,                \* hpc[r]: position of the Handler invocation for r
    status,             \* status[r]: status written to the ResponseWriter
    plan,               \* plan[r]: sends the Handler invocation still has to do
    sent,               \* sent[r]: signals the Handler invocation has sent
    recvd,              \* number of signals received from each sink
    spc,                \* spc[s]: position of Shutdown caller s
    sdResult,           \* sdResult[s]: what Shutdown returned to caller s
    shutdownCalls,      \* number of invocations of Shutdown
    RedirectServerPort, \* OAuth2.RedirectServerPort
    cfg,                \* OAuth2.cfg: "nil" or "loaded"
    tok,                \* OAuth2.tok: NilToken or <<token>>
    cpc,                \* position of loadRemoteToken
    code,               \* loadRemoteToken's local variable code
    cerr,               \* what loadRemoteToken returns
    exchangeArg,        \* the code passed to cfg.Exchange
    exchangeRet,        \* the token cfg.Exchange returned (NilToken: none)
    logger,             \* OAuth2.logger: "nil" or "set"
    tokenFile,          \* what is found at the path OAuth2.TokenFile
    tok0,               \* OAuth2.tok when the operation began
    ltpc,               \* position of LoadToken
    localErr,           \* what loadLocalToken returned
    lterr,              \* what LoadToken returned
    hc,                 \* what Client() returned
    gpc,                \* position of NewGmailClient (root package)
    gerr,               \* what NewGmailClient returned
    tret,               \* what token() returned: <<>> or <<[tok, err]>>
    TokenFile,          \* GmailClientConfig.TokenFile, a file name
    UserInput,          \* GmailClientConfig.UserInput
    credentials,        \* GmailClientConfig.CredentialsFile and what it holds
    saves,              \* the calls of saveToken made so far
    log,                \* what has been written to the Logger
    lasRet,             \* what ListenAndServe returned: <<>> or <<[under, ret]>>
    got,                \* what GetToken returned: <<>> or <<[bytes, err]>>
    rt,                 \* the token last saved, the file last loaded, the last calls
    pkind,              \* which Process runs: "Processor" or "Alerter"
    nilField,           \* the nil field of the Alerter, or "none"
    alerts,             \* the argument of Process
    ppc,                \* position of Process
    pret,               \* what Process returned
    tpc,                \* tpc[i]: position of the goroutine of alert i
    found,              \* found[i]: what the match of alert i gave
    notified,           \* notified[i]: calls of the notifier for alert i
    terr,               \* terr[i]: what the goroutine of alert i returned
    plog,               \* plog[i]: Logger entries of the goroutine of alert i
    grpErr,             \* the error held by the errgroup.Group
    order,              \* the alerts in the order their goroutines returned
    variant,            \* which Processor.Process runs: "process.go" or "part_006"
    queried,            \* queried[i]: calls of the finder or matcher for alert i
    delivered,          \* delivered[i]: the alerts handed to the sender for alert i
    numEmittedAlerts,   \* the counter of Processor.Process (uint64)
    printed,            \* the count printed after Wait: <<>> or <<n>>
    args,               \* the flags cli.Run was started with
    rpc,                \* position of cli.Run
    rerr                \* what cli.Run returned

vars == <<Port, authCodes, authCodeErrors, svr, las, req, hpc, status, plan,
          sent, recvd, spc, sdResult, shutdownCalls, RedirectServerPort, cfg,
          tok, cpc, code, cerr, exchangeArg, exchangeRet, logger, tokenFile,
          tok0, ltpc, localErr, lterr, hc, gpc, gerr, tret, TokenFile,
          UserInput, credentials, saves, log, lasRet, got, rt, pkind,
          nilField, alerts, ppc, pret, tpc, found, notified, terr, plog, grpErr,
          order, variant, queried, delivered, numEmittedAlerts, printed, args,
          rpc, rerr>>

listenerVars == <<Port, authCodes, authCodeErrors, svr, las>>
handlerVars == <<req, hpc, status, plan, sent>>
shutdownVars == <<spc, sdResult, shutdownCalls>>
coordVars == <<RedirectServerPort, cfg, tok, cpc, code, cerr, exchangeArg, exchangeRet>>
loadVars == <<logger, tokenFile, tok0, ltpc, localErr, lterr, hc>>
apiVars == <<lasRet, got, rt>>
runVars == <<args, rpc, rerr>>
emitVars == <<variant, queried, delivered, numEmittedAlerts, printed>>
procVars == <<pkind, nilField, alerts, ppc, pret, tpc, found, notified, terr, plog,
             grpErr, order, emitVars>>
rootVars == <<gpc, gerr, tret, TokenFile, UserInput, credentials, saves, log>>

NoRequest == Rq("", <<>>, <<>>)
NoStatus == 0
OpenChan == [buf |-> <<>>, closed |-> FALSE]

\* ------------------------------------------------------ pure functions

\* url.Values.Get: the first value of the key, "" when the key is absent
Get(vals) == IF vals = <<>> THEN "" ELSE vals[1]

\* the port check with its lower comparison off by one
ValidPortOffByOne(p) == ~(p <= MinPort \/ p > MaxPort)

\* the port check of NewOAuth2RedirectServer
ValidPort(p) == ~(p < MinPort \/ p > MaxPort)

MethodError(m) == <<"request method must be an http get", m>>
StateError == <<"request must contain a query parameter state=state-token">>
CodeError == <<"request must contain a non-empty query parameter code">>

ErrSignal(e) == [sink |-> "authCodeErrors", val |-> e]
CodeSignal(c) == [sink |-> "authCodes", val |-> c]

\* Handler with the return statements of the error branches left out
HandlerFallThrough(rq) ==
    LET s1 == IF rq.method # "GET"
              THEN <<ErrSignal(MethodError(rq.method))>> ELSE <<>>
        s2 == IF Get(rq.state) # StateToken
              THEN <<ErrSignal(StateError)>> ELSE <<>>
        s3 == IF Get(rq.code) = ""
              THEN <<ErrSignal(CodeError)>>
              ELSE <<CodeSignal(Get(rq.code))>>
    IN  [status |-> IF rq.method # "GET" THEN StatusMethodNotAllowed
                    ELSE IF Get(rq.state) # StateToken THEN StatusBadRequest
                    ELSE IF Get(rq.code) = "" THEN StatusBadRequest
                    ELSE StatusOK,
         sends |-> s1 \o s2 \o s3]

\* OAuth2RedirectServer.Handler up to its channel send: the status it writes
\* and the send it goes on to perform
Handler(rq) ==
    IF rq.method # "GET"
    THEN [status |-> StatusMethodNotAllowed,
          sends |-> <<ErrSignal(MethodError(rq.method))>>]
    ELSE IF Get(rq.state) # StateToken
    THEN [status |-> StatusBadRequest, sends |-> <<ErrSignal(StateError)>>]
    ELSE IF Get(rq.code) = ""
    THEN [status |-> StatusBadRequest, sends |-> <<ErrSignal(CodeError)>>]
    ELSE [status |-> StatusOK, sends |-> <<CodeSignal(Get(rq.code))>>]

Active(r) == hpc[r] = "send"
NoActiveHandler == \A r \in Requests : ~Active(r)

\* ------------------------------------------------------------ initial states
InitListener ==
    /\ authCodes = OpenChan
    /\ authCodeErrors = OpenChan
    /\ svr = "new"
    /\ req = [r \in Requests |-> NoRequest]
    /\ hpc = [r \in Requests |-> "idle"]
    /\ status = [r \in Requests |-> NoStatus]
    /\ plan = [r \in Requests |-> <<>>]
    /\ sent = [r \in Requests |-> <<>>]
    /\ recvd = [authCodes |-> 0, authCodeErrors |-> 0]
    /\ spc = [s \in ShutdownCallers |-> "idle"]
    /\ sdResult = [s \in ShutdownCallers |-> "none"]
    /\ shutdownCalls = 0
    /\ code = ""
    /\ cerr = NotReturned
    /\ exchangeArg = "none"
    /\ exchangeRet = NilToken
    /\ localErr = NotReturned
    /\ lterr = NotReturned
    /\ hc = <<>>

\* a reader: nil, or the words still to be read from it
Reader(isNil, words) == [nil |-> isNil, words |-> words]
UserInputSamples == { Reader(TRUE, <<>>), Reader(FALSE, <<>>), Reader(FALSE, <<"4/abc">>) }
CredentialsSamples == {"no name", "absent", "invalid", "valid"}
defaultTokenFile == "token.json"

\* no NewGmailClient of the root package is running
RootIdle ==
    /\ gpc = "none"
    /\ gerr = NotReturned
    /\ tret = <<>>
    /\ TokenFile = defaultTokenFile
    /\ UserInput = Reader(TRUE, <<>>)
    /\ credentials = "valid"
    /\ saves = <<>>
    /\ log = <<>>

\* neither GetToken nor SaveToken has been called
NoRoundTrip == [saved |-> <<>>, loaded |-> <<>>, ops |-> <<>>]
ApiIdle ==
    /\ lasRet = <<>>
    /\ got = <<>>
    /\ rt = NoRoundTrip

\* no Process is running
ProcIdle ==
    /\ pkind = "none"
    /\ nilField = "none"
    /\ alerts = <<>>
    /\ ppc = "none"
    /\ pret = NotReturned
    /\ tpc = [i \in Alerts |-> "none"]
    /\ found = [i \in Alerts |-> <<>>]
    /\ notified = [i \in Alerts |-> 0]
    /\ terr = [i \in Alerts |-> NotReturned]
    /\ plog = [i \in Alerts |-> <<>>]
    /\ grpErr = Nil
    /\ order = <<>>
    /\ variant = "none"
    /\ queried = [i \in Alerts |-> 0]
    /\ delivered = [i \in Alerts |-> <<>>]
    /\ numEmittedAlerts = 0
    /\ printed = <<>>

\* no cli.Run is running
NoArgs == [parse |-> "none", credsFile |-> "", alertsConfigFile |-> "", tokenFile |-> "",
           port |-> 0, debug |-> FALSE]
RunIdle ==
    /\ args = NoArgs
    /\ rpc = "none"
    /\ rerr = NotReturned

\* a constructed server whose ListenAndServe goroutine has been spawned
Init ==
    /\ InitListener
    /\ Port = DefaultPort
    /\ RedirectServerPort = Port
    /\ las = "spawned"
    /\ cfg = "loaded"
    /\ cpc = "none"
    /\ tok = NilToken
    /\ tok0 = tok
    /\ logger = "set"
    /\ tokenFile = AbsentFile
    /\ ltpc = "none"
    /\ RootIdle
    /\ ApiIdle
    /\ ProcIdle
    /\ RunIdle

\* an OAuth2 value about to run loadRemoteToken
InitRemote ==
    /\ InitListener
    /\ Port = 0
    /\ RedirectServerPort \in Ports
    /\ las = "none"
    /\ cfg \in {"nil", "loaded"}
    /\ cpc = "start"
    /\ tok \in {NilToken} \cup {<<t>> : t \in StoredTokens}
    /\ tok0 = tok
    /\ logger = "set"
    /\ tokenFile = AbsentFile
    /\ ltpc = "none"
    /\ RootIdle
    /\ ApiIdle
    /\ ProcIdle
    /\ RunIdle

\* ------------------------------------------------------------ the listener

\* what o.svr.ListenAndServe() of net/http can return
ErrServerClosed == <<"http: Server closed">>
BindError == <<"listen tcp", "bind: address already in use">>

\* ListenAndServe with the negation of its test left out
ListenAndServeResultInverted(err) == IF err = ErrServerClosed THEN err ELSE Nil

\* what ListenAndServe returns for the error err of o.svr.ListenAndServe()
ListenAndServeResult(err) == IF err # ErrServerClosed THEN err ELSE Nil

\* the state of the goroutine whose ListenAndServe returned ret
Returned(ret) == IF ret = Nil THEN "returnedNil" ELSE "returnedErr"

\* OAuth2RedirectServer.ListenAndServe: binds and serves, or fails
ListenAndServe ==
    /\ las = "spawned"
    /\ \/ /\ svr = "new"
          /\ svr' = "listening"
          /\ las' = "serving"
          /\ UNCHANGED lasRet
       \/ /\ svr = "new"
          /\ lasRet' = <<[under |-> BindError, ret |-> ListenAndServeResult(BindError)]>>
          /\ las' = Returned(ListenAndServeResult(BindError))
          /\ svr' = svr
       \/ /\ svr = "shutdown"
          /\ lasRet' = <<[under |-> ErrServerClosed,
                          ret |-> ListenAndServeResult(ErrServerClosed)]>>
          /\ las' = Returned(ListenAndServeResult(ErrServerClosed))
          /\ svr' = svr
    /\ UNCHANGED <<Port, authCodes, authCodeErrors>>
    /\ UNCHANGED <<handlerVars, recvd, shutdownVars, coordVars, loadVars, rootVars>>
    /\ UNCHANGED <<got, rt, procVars, runVars>>

\* the serving goroutine returns http.ErrServerClosed, mapped to nil
ListenAndServeReturn ==
    /\ las = "serving"
    /\ svr = "shutdown"
    /\ lasRet' = <<[under |-> ErrServerClosed,
                    ret |-> ListenAndServeResult(ErrServerClosed)]>>
    /\ las' = Returned(ListenAndServeResult(ErrServerClosed))
    /\ UNCHANGED <<Port, authCodes, authCodeErrors, svr>>
    /\ UNCHANGED <<handlerVars, recvd, shutdownVars, coordVars, loadVars, rootVars>>
    /\ UNCHANGED <<got, rt, procVars, runVars>>

\* the server accepts request r and runs Handler up to its channel send
Request(r) ==
    /\ hpc[r] = "idle"
    /\ r > 1 => hpc[r - 1] # "idle"
    /\ svr = "listening"
    /\ \E rq \in RequestSamples :
         LET h == Handler(rq)
         IN  /\ req' = [req EXCEPT ![r] = rq]
             /\ status' = [status EXCEPT ![r] = h.status]
             /\ plan' = [plan EXCEPT ![r] = h.sends]
             /\ hpc' = [hpc EXCEPT ![r] = IF h.sends = <<>> THEN "done" ELSE "send"]
    /\ UNCHANGED <<listenerVars, sent, recvd, shutdownVars, coordVars, loadVars, rootVars>>
    /\ UNCHANGED <<apiVars, procVars, runVars>>

Chan(name) == IF name = "authCodes" THEN authCodes ELSE authCodeErrors

\* the channel send of Handler: panics on a closed channel, blocks while the
\* buffer is full
HandlerSend(r) ==
    /\ hpc[r] = "send"
    /\ LET sig == Head(plan[r])
           ch == Chan(sig.sink)
       IN  IF ch.closed
           THEN /\ hpc' = [hpc EXCEPT ![r] = "panicked"]
                /\ UNCHANGED <<authCodes, authCodeErrors, plan, sent>>
           ELSE /\ Len(ch.buf) < SinkCap
                /\ IF sig.sink = "authCodes"
                   THEN /\ authCodes' = [authCodes EXCEPT !.buf = Append(@, sig.val)]
                        /\ UNCHANGED authCodeErrors
                   ELSE /\ authCodeErrors' = [authCodeErrors EXCEPT !.buf = Append(@, sig.val)]
                        /\ UNCHANGED authCodes
                /\ sent' = [sent EXCEPT ![r] = Append(@, sig)]
                /\ plan' = [plan EXCEPT ![r] = Tail(@)]
                /\ hpc' = [hpc EXCEPT ![r] = IF Tail(plan[r]) = <<>> THEN "done" ELSE "send"]
    /\ UNCHANGED <<Port, svr, las, req, status, recvd, shutdownVars, coordVars, loadVars, rootVars>>
    /\ UNCHANGED <<apiVars, procVars, runVars>>

\* a consumer receives from NotifyAuthCode()
RecvAuthCode ==
    /\ authCodes.buf # <<>>
    /\ authCodes' = [authCodes EXCEPT !.buf = Tail(@)]
    /\ recvd' = [recvd EXCEPT !.authCodes = @ + 1]
    /\ UNCHANGED <<Port, authCodeErrors, svr, las>>
    /\ UNCHANGED <<handlerVars, shutdownVars, coordVars, loadVars, rootVars>>
    /\ UNCHANGED <<apiVars, procVars, runVars>>

\* a consumer receives from NotifyError()
RecvError ==
    /\ authCodeErrors.buf # <<>>
    /\ authCodeErrors' = [authCodeErrors EXCEPT !.buf = Tail(@)]
    /\ recvd' = [recvd EXCEPT !.authCodeErrors = @ + 1]
    /\ UNCHANGED <<Port, authCodes, svr, las>>
    /\ UNCHANGED <<handlerVars, shutdownVars, coordVars, loadVars, rootVars>>
    /\ UNCHANGED <<apiVars, procVars, runVars>>

\* ---------------------------------------------------------------- Shutdown

\* caller s invokes OAuth2RedirectServer.Shutdown
ShutdownCall(s) ==
    /\ spc[s] = "idle"
    /\ s > 1 => spc[s - 1] # "idle"
    /\ spc' = [spc EXCEPT ![s] = "closeErrors"]
    /\ shutdownCalls' = shutdownCalls + 1
    /\ UNCHANGED <<listenerVars, handlerVars, recvd, sdResult, coordVars, loadVars, rootVars>>
    /\ UNCHANGED <<apiVars, procVars, runVars>>

\* close(o.authCodeErrors): panics when the channel is already closed
CloseAuthCodeErrors(s) ==
    /\ spc[s] = "closeErrors"
    /\ IF authCodeErrors.closed
       THEN /\ spc' = [spc EXCEPT ![s] = "panicked"]
            /\ UNCHANGED authCodeErrors
       ELSE /\ authCodeErrors' = [authCodeErrors EXCEPT !.closed = TRUE]
            /\ spc' = [spc EXCEPT ![s] = "closeCodes"]
    /\ UNCHANGED <<Port, authCodes, svr, las>>
    /\ UNCHANGED <<handlerVars, recvd, sdResult, shutdownCalls, coordVars, loadVars, rootVars>>
    /\ UNCHANGED <<apiVars, procVars, runVars>>

\* close(o.authCodes): panics when the channel is already closed
CloseAuthCodes(s) ==
    /\ spc[s] = "closeCodes"
    /\ IF authCodes.closed
       THEN /\ spc' = [spc EXCEPT ![s] = "panicked"]
            /\ UNCHANGED authCodes
       ELSE /\ authCodes' = [authCodes EXCEPT !.closed = TRUE]
            /\ spc' = [spc EXCEPT ![s] = "svrShutdown"]
    /\ UNCHANGED <<Port, authCodeErrors, svr, las>>
    /\ UNCHANGED <<handlerVars, recvd, sdResult, shutdownCalls, coordVars, loadVars, rootVars>>
    /\ UNCHANGED <<apiVars, procVars, runVars>>

\* o.svr.Shutdown(ctx) begins: the server stops accepting requests
SvrShutdown(s) ==
    /\ spc[s] = "svrShutdown"
    /\ svr' = "shutdown"
    /\ spc' = [spc EXCEPT ![s] = "waitIdle"]
    /\ UNCHANGED <<Port, authCodes, authCodeErrors, las>>
    /\ UNCHANGED <<handlerVars, recvd, sdResult, shutdownCalls, coordVars, loadVars, rootVars>>
    /\ UNCHANGED <<apiVars, procVars, runVars>>

\* o.svr.Shutdown(ctx) returns: nil once no handler is running, the context's
\* error when the 5 seconds pass while one still is
SvrShutdownReturn(s) ==
    /\ spc[s] = "waitIdle"
    /\ spc' = [spc EXCEPT ![s] = "done"]
    /\ sdResult' = [sdResult EXCEPT ![s] =
                      IF NoActiveHandler THEN "nil" ELSE "deadline exceeded"]
    /\ UNCHANGED <<listenerVars, handlerVars, recvd, shutdownCalls, coordVars, loadVars, rootVars>>
    /\ UNCHANGED <<apiVars, procVars, runVars>>

Next ==
    \/ ListenAndServe
    \/ ListenAndServeReturn
    \/ \E r \in Requests : Request(r)
    \/ \E r \in Requests : HandlerSend(r)
    \/ RecvAuthCode
    \/ RecvError
    \/ \E s \in ShutdownCallers : ShutdownCall(s)
    \/ \E s \in ShutdownCallers : CloseAuthCodeErrors(s)
    \/ \E s \in ShutdownCallers : CloseAuthCodes(s)
    \/ \E s \in ShutdownCallers : SvrShutdown(s)
    \/ \E s \in ShutdownCallers : SvrShutdownReturn(s)

Spec == Init /\ [][Next]_vars

\* ------------------------------------------------- OAuth2.loadRemoteToken

\* NewOAuth2RedirectServer with the test of the port left out
NewOAuth2RedirectServerUnchecked(port) == [svr |-> <<port>>, err |-> Nil]

\* NewOAuth2RedirectServer(port): no server and an error for a port outside
\* 1024-65535, else a server on that port and no error
NewOAuth2RedirectServer(port) ==
    IF ~ValidPort(port) THEN [svr |-> <<>>, err |-> PortError]
    ELSE [svr |-> <<port>>, err |-> Nil]

\* loadRemoteToken with svr.Shutdown() called where it is written, the defer
\* keyword left out
LoadRemoteTokenStartShutsDown ==
    /\ cpc = "start"
    /\ IF NewOAuth2RedirectServer(RedirectServerPort).err # Nil
       THEN /\ cerr' = NewOAuth2RedirectServer(RedirectServerPort).err
            /\ cpc' = "returned"
            /\ UNCHANGED <<Port, las, shutdownVars>>
       ELSE /\ Port' = NewOAuth2RedirectServer(RedirectServerPort).svr[1]
            /\ las' = "spawned"
            /\ cpc' = "authURL"
            /\ spc' = [spc EXCEPT ![1] = "closeErrors"]
            /\ shutdownCalls' = shutdownCalls + 1
            /\ UNCHANGED <<cerr, sdResult>>
    /\ UNCHANGED <<authCodes, authCodeErrors, svr>>
    /\ UNCHANGED <<handlerVars, recvd>>
    /\ UNCHANGED <<RedirectServerPort, cfg, tok, code, exchangeArg, exchangeRet>>
    /\ UNCHANGED <<loadVars, rootVars>>
    /\ UNCHANGED <<apiVars, procVars, runVars>>

\* NewOAuth2RedirectServer(o.RedirectServerPort), defer svr.Shutdown() and
\* the spawning of the goroutine that runs svr.ListenAndServe()
LoadRemoteTokenStart ==
    /\ cpc = "start"
    /\ IF NewOAuth2RedirectServer(RedirectServerPort).err # Nil
       THEN /\ cerr' = NewOAuth2RedirectServer(RedirectServerPort).err
            /\ cpc' = "returned"
            /\ UNCHANGED <<Port, las>>
       ELSE /\ Port' = NewOAuth2RedirectServer(RedirectServerPort).svr[1]
            /\ las' = "spawned"
            /\ cpc' = "authURL"
            /\ UNCHANGED cerr
    /\ UNCHANGED <<authCodes, authCodeErrors, svr>>
    /\ UNCHANGED <<handlerVars, recvd, shutdownVars>>
    /\ UNCHANGED <<RedirectServerPort, cfg, tok, code, exchangeArg, exchangeRet>>
    /\ UNCHANGED <<loadVars, rootVars>>
    /\ UNCHANGED <<apiVars, procVars, runVars>>

\* o.cfg.AuthCodeURL(...) and the printing of the URL; a nil o.cfg makes the
\* call panic, which runs the deferred Shutdown
AuthCodeURL ==
    /\ cpc = "authURL"
    /\ IF cfg = "nil"
       THEN /\ cerr' = NilDereference
            /\ cpc' = "deferred"
       ELSE /\ cpc' = "select"
            /\ UNCHANGED cerr
    /\ UNCHANGED <<listenerVars, handlerVars, recvd, shutdownVars>>
    /\ UNCHANGED <<RedirectServerPort, cfg, tok, code, exchangeArg, exchangeRet>>
    /\ UNCHANGED <<loadVars, rootVars>>
    /\ UNCHANGED <<apiVars, procVars, runVars>>

\* select, case <-svr.NotifyAuthCode() with the received value dropped
SelectAuthCodeDropsCode ==
    /\ cpc = "select"
    /\ authCodes.buf # <<>>
    /\ code' = code
    /\ authCodes' = [authCodes EXCEPT !.buf = Tail(@)]
    /\ recvd' = [recvd EXCEPT !.authCodes = @ + 1]
    /\ cpc' = "exchange"
    /\ UNCHANGED <<Port, authCodeErrors, svr, las>>
    /\ UNCHANGED <<handlerVars, shutdownVars>>
    /\ UNCHANGED <<RedirectServerPort, cfg, tok, cerr, exchangeArg, exchangeRet>>
    /\ UNCHANGED <<loadVars, rootVars>>
    /\ UNCHANGED <<apiVars, procVars, runVars>>

\* select, case code = <-svr.NotifyAuthCode()
SelectAuthCode ==
    /\ cpc = "select"
    /\ authCodes.buf # <<>>
    /\ code' = Head(authCodes.buf)
    /\ authCodes' = [authCodes EXCEPT !.buf = Tail(@)]
    /\ recvd' = [recvd EXCEPT !.authCodes = @ + 1]
    /\ cpc' = "exchange"
    /\ UNCHANGED <<Port, authCodeErrors, svr, las>>
    /\ UNCHANGED <<handlerVars, shutdownVars>>
    /\ UNCHANGED <<RedirectServerPort, cfg, tok, cerr, exchangeArg, exchangeRet>>
    /\ UNCHANGED <<loadVars, rootVars>>
    /\ UNCHANGED <<apiVars, procVars, runVars>>

\* select, case err = <-svr.NotifyError(), with the return skipping the
\* deferred call
SelectErrorNoShutdown ==
    /\ cpc = "select"
    /\ authCodeErrors.buf # <<>>
    /\ cerr' = Head(authCodeErrors.buf)
    /\ authCodeErrors' = [authCodeErrors EXCEPT !.buf = Tail(@)]
    /\ recvd' = [recvd EXCEPT !.authCodeErrors = @ + 1]
    /\ cpc' = "returned"
    /\ UNCHANGED <<Port, authCodes, svr, las>>
    /\ UNCHANGED <<handlerVars, shutdownVars>>
    /\ UNCHANGED <<RedirectServerPort, cfg, tok, code, exchangeArg, exchangeRet>>
    /\ UNCHANGED <<loadVars, rootVars>>
    /\ UNCHANGED <<apiVars, procVars, runVars>>

\* select, case err = <-svr.NotifyError(): return err
SelectError ==
    /\ cpc = "select"
    /\ authCodeErrors.buf # <<>>
    /\ cerr' = Head(authCodeErrors.buf)
    /\ authCodeErrors' = [authCodeErrors EXCEPT !.buf = Tail(@)]
    /\ recvd' = [recvd EXCEPT !.authCodeErrors = @ + 1]
    /\ cpc' = "deferred"
    /\ UNCHANGED <<Port, authCodes, svr, las>>
    /\ UNCHANGED <<handlerVars, shutdownVars>>
    /\ UNCHANGED <<RedirectServerPort, cfg, tok, code, exchangeArg, exchangeRet>>
    /\ UNCHANGED <<loadVars, rootVars>>
    /\ UNCHANGED <<apiVars, procVars, runVars>>

\* tok, err := o.cfg.Exchange(ctx, code): the provider accepts or rejects
Exchange ==
    /\ cpc = "exchange"
    /\ exchangeArg' = code
    /\ \/ /\ cerr' = ExchangeError
          /\ UNCHANGED <<tok, exchangeRet>>
       \/ /\ \E t \in ExchangeTokens :
                /\ exchangeRet' = <<t>>
                /\ tok' = <<t>>
          /\ cerr' = Nil
    /\ cpc' = "deferred"
    /\ UNCHANGED <<listenerVars, handlerVars, recvd, shutdownVars>>
    /\ UNCHANGED <<RedirectServerPort, cfg, code>>
    /\ UNCHANGED <<loadVars, rootVars>>
    /\ UNCHANGED <<apiVars, procVars, runVars>>

\* the deferred svr.Shutdown() is invoked
RunDeferred ==
    /\ cpc = "deferred"
    /\ spc[1] = "idle"
    /\ spc' = [spc EXCEPT ![1] = "closeErrors"]
    /\ shutdownCalls' = shutdownCalls + 1
    /\ cpc' = "shutdown"
    /\ UNCHANGED <<listenerVars, handlerVars, recvd, sdResult>>
    /\ UNCHANGED <<RedirectServerPort, cfg, tok, code, cerr, exchangeArg, exchangeRet>>
    /\ UNCHANGED <<loadVars, rootVars>>
    /\ UNCHANGED <<apiVars, procVars, runVars>>

\* the deferred call has ended and loadRemoteToken returns
LoadRemoteTokenReturn ==
    /\ cpc = "shutdown"
    /\ spc[1] \in {"done", "panicked"}
    /\ cpc' = "returned"
    /\ UNCHANGED <<listenerVars, handlerVars, recvd, shutdownVars>>
    /\ UNCHANGED <<RedirectServerPort, cfg, tok, code, cerr, exchangeArg, exchangeRet>>
    /\ UNCHANGED <<loadVars, rootVars>>
    /\ UNCHANGED <<apiVars, procVars, runVars>>

NextRemote ==
    \/ LoadRemoteTokenStart
    \/ AuthCodeURL
    \/ SelectAuthCode
    \/ SelectError
    \/ Exchange
    \/ RunDeferred
    \/ LoadRemoteTokenReturn
    \/ ListenAndServe
    \/ ListenAndServeReturn
    \/ \E r \in Requests : Request(r)
    \/ \E r \in Requests : HandlerSend(r)
    \/ \E s \in ShutdownCallers : CloseAuthCodeErrors(s)
    \/ \E s \in ShutdownCallers : CloseAuthCodes(s)
    \/ \E s \in ShutdownCallers : SvrShutdown(s)
    \/ \E s \in ShutdownCallers : SvrShutdownReturn(s)

SpecRemote == InitRemote /\ [][NextRemote]_vars

\* ------------------------------------------------------- OAuth2.LoadToken

\* the value of key k of a JSON object, d when the object has no such key
Field(doc, k, d) == IF k \in DOMAIN doc THEN doc[k] ELSE d

\* a decoding that has no field for the key refresh_token
DecodeTokenDropsRefresh(doc) ==
    Token(Field(doc, "access_token", ""), Field(doc, "token_type", ""),
          "", Field(doc, "expiry", ZeroTime))

\* json decoding of an object into an oauth2.Token: each JSON key fills the
\* field tagged with it, a field without its key keeps its zero value
DecodeToken(doc) ==
    Token(Field(doc, "access_token", ""), Field(doc, "token_type", ""),
          Field(doc, "refresh_token", ""), Field(doc, "expiry", ZeroTime))

\* loadLocalToken without the assignment o.tok = &tok
loadLocalTokenNoStore(file, old) ==
    IF file.kind = "absent" THEN [err |-> OpenError, tok |-> old]
    ELSE IF file.kind = "unreadable" THEN [err |-> ReadError, tok |-> old]
    ELSE IF file.kind \in {"empty", "garbage"} THEN [err |-> DecodeError, tok |-> old]
    ELSE [err |-> Nil, tok |-> old]

\* the fields of t overwritten by those the decoder filled from doc
Overwrite(t, doc) ==
    Token(Field(doc, "access_token", t.AccessToken), Field(doc, "token_type", t.TokenType),
          Field(doc, "refresh_token", t.RefreshToken), Field(doc, "expiry", t.Expiry))

\* a loadLocalToken that decodes into *o.tok instead of a local variable
loadLocalTokenInPlace(file, old) ==
    IF file.kind = "absent" THEN [err |-> OpenError, tok |-> old]
    ELSE IF file.kind = "unreadable" THEN [err |-> ReadError, tok |-> old]
    ELSE IF file.kind \in {"empty", "garbage"} THEN [err |-> DecodeError, tok |-> old]
    ELSE IF file.kind = "badfield"
    THEN [err |-> DecodeError,
          tok |-> <<Overwrite(IF old = NilToken THEN ZeroToken ELSE old[1], file.doc)>>]
    ELSE IF file.kind = "null" THEN [err |-> Nil, tok |-> <<ZeroToken>>]
    ELSE [err |-> Nil, tok |-> <<DecodeToken(file.doc)>>]

\* OAuth2.loadLocalToken: the error it returns and the value of o.tok after it;
\* the decoder writes into the local variable tok, stored only without error
loadLocalToken(file, old) ==
    IF file.kind = "absent" THEN [err |-> OpenError, tok |-> old]
    ELSE IF file.kind = "unreadable" THEN [err |-> ReadError, tok |-> old]
    ELSE IF file.kind \in {"empty", "garbage", "badfield"}
    THEN [err |-> DecodeError, tok |-> old]
    ELSE IF file.kind = "null" THEN [err |-> Nil, tok |-> <<ZeroToken>>]
    ELSE [err |-> Nil, tok |-> <<DecodeToken(file.doc)>>]

\* an OAuth2 value about to run LoadToken: built by NewOAuth2 (logger set) or
\* as a struct literal from outside the package (logger nil)
InitLoadToken ==
    /\ InitListener
    /\ Port = 0
    /\ RedirectServerPort \in {MinPort - 1, DefaultPort}
    /\ las = "none"
    /\ cfg \in {"nil", "loaded"}
    /\ cpc = "none"
    /\ tok \in {NilToken} \cup {<<t>> : t \in StoredTokens}
    /\ tok0 = tok
    /\ logger \in {"nil", "set"}
    /\ tokenFile \in TokenFileSamples
    /\ ltpc = "start"
    /\ RootIdle
    /\ ApiIdle
    /\ ProcIdle
    /\ RunIdle

\* err := o.loadLocalToken() and the o.logger.Printf that follows it on either
\* branch; on an error the call of o.loadRemoteToken() begins
LoadTokenLocal ==
    /\ ltpc = "start"
    /\ LET r == loadLocalToken(tokenFile, tok)
       IN  /\ localErr' = r.err
           /\ tok' = r.tok
           /\ IF logger = "nil"
              THEN /\ ltpc' = "panicked"
                   /\ UNCHANGED <<cpc, lterr>>
              ELSE IF r.err # Nil
              THEN /\ ltpc' = "remote"
                   /\ cpc' = "start"
                   /\ UNCHANGED lterr
              ELSE /\ ltpc' = "returned"
                   /\ lterr' = Nil
                   /\ UNCHANGED cpc
    /\ UNCHANGED <<listenerVars, handlerVars, recvd, shutdownVars>>
    /\ UNCHANGED <<RedirectServerPort, cfg, code, cerr, exchangeArg, exchangeRet>>
    /\ UNCHANGED <<logger, tokenFile, tok0, hc>>
    /\ UNCHANGED rootVars
    /\ UNCHANGED <<apiVars, procVars, runVars>>

\* LoadToken logging the error of loadRemoteToken and returning nil
LoadTokenReturnSwallowsError ==
    /\ ltpc = "remote"
    /\ cpc = "returned"
    /\ IF cerr = NilDereference
       THEN /\ ltpc' = "panicked"
            /\ UNCHANGED lterr
       ELSE /\ ltpc' = "returned"
            /\ lterr' = Nil
    /\ UNCHANGED <<listenerVars, handlerVars, recvd, shutdownVars, coordVars>>
    /\ UNCHANGED <<logger, tokenFile, tok0, localErr, hc>>
    /\ UNCHANGED rootVars
    /\ UNCHANGED <<apiVars, procVars, runVars>>

\* loadRemoteToken has returned: its error is returned, or nil; a panic in
\* loadRemoteToken goes on through LoadToken
LoadTokenReturn ==
    /\ ltpc = "remote"
    /\ cpc = "returned"
    /\ IF cerr = NilDereference
       THEN /\ ltpc' = "panicked"
            /\ UNCHANGED lterr
       ELSE /\ ltpc' = "returned"
            /\ lterr' = cerr
    /\ UNCHANGED <<listenerVars, handlerVars, recvd, shutdownVars, coordVars>>
    /\ UNCHANGED <<logger, tokenFile, tok0, localErr, hc>>
    /\ UNCHANGED rootVars
    /\ UNCHANGED <<apiVars, procVars, runVars>>

CfgNilError == <<"oauth2 configuration must be non-nil">>
TokNilError == <<"oauth2 token must be non-nil">>

\* OAuth2.Client without its check of o.tok
ClientNoTokenCheck ==
    /\ ltpc = "returned"
    /\ hc = <<>>
    /\ hc' = IF cfg = "nil" THEN <<[client |-> NilToken, err |-> CfgNilError]>>
             ELSE <<[client |-> tok, err |-> Nil]>>
    /\ UNCHANGED <<listenerVars, handlerVars, recvd, shutdownVars, coordVars>>
    /\ UNCHANGED <<logger, tokenFile, tok0, ltpc, localErr, lterr>>
    /\ UNCHANGED rootVars
    /\ UNCHANGED <<apiVars, procVars, runVars>>

\* OAuth2.Client, called once LoadToken has returned
Client ==
    /\ ltpc = "returned"
    /\ hc = <<>>
    /\ hc' = IF cfg = "nil" THEN <<[client |-> NilToken, err |-> CfgNilError]>>
             ELSE IF tok = NilToken THEN <<[client |-> NilToken, err |-> TokNilError]>>
             ELSE <<[client |-> tok, err |-> Nil]>>
    /\ UNCHANGED <<listenerVars, handlerVars, recvd, shutdownVars, coordVars>>
    /\ UNCHANGED <<logger, tokenFile, tok0, ltpc, localErr, lterr>>
    /\ UNCHANGED rootVars
    /\ UNCHANGED <<apiVars, procVars, runVars>>

NextLoadToken ==
    \/ LoadTokenLocal
    \/ LoadTokenReturn
    \/ Client
    \/ LoadRemoteTokenStart
    \/ AuthCodeURL
    \/ SelectAuthCode
    \/ SelectError
    \/ Exchange
    \/ RunDeferred
    \/ LoadRemoteTokenReturn
    \/ ListenAndServe
    \/ ListenAndServeReturn
    \/ \E r \in Requests : Request(r)
    \/ \E r \in Requests : HandlerSend(r)
    \/ \E s \in ShutdownCallers : CloseAuthCodeErrors(s)
    \/ \E s \in ShutdownCallers : CloseAuthCodes(s)
    \/ \E s \in ShutdownCallers : SvrShutdown(s)
    \/ \E s \in ShutdownCallers : SvrShutdownReturn(s)

SpecLoadToken == InitLoadToken /\ [][NextLoadToken]_vars

\* ------------------------------- NewGmailClient and token() (root package)

OKError(e) == <<"got error validating gmail client config", e>>
InitConfigError(e) == <<"got error initializing gmail oauth", e>>
ClientError(e) == <<"got error creating oauth2-enabled http client">> \o e
TokenError(e) == <<"got error fetching gmail oauth2 token">> \o e
RemoteTokenError(e) == <<"got error when remotely fetching gmail oauth2 token">> \o e
AuthCodeError(e) == <<"got error retrieving oauth2 auth code">> \o e
NilInputError == <<"user input must be non-nil">>
PortNotPositiveError == <<"redirect server port must be a positive number">>
ScanError == <<"got error reading auth code from user input", "EOF">>

\* GmailClientConfig.OK: the reason it rejects the configuration, or "ok"
OK(creds, input, port) ==
    IF creds = "no name" THEN "credentials file name must not be empty"
    ELSE IF input.nil THEN "user input reader must not be nil"
    ELSE IF port < 1 THEN "redirect server port must not be negative"
    ELSE "ok"

\* json encoding of an oauth2.Token: token_type and refresh_token are left
\* out when empty (omitempty), access_token and expiry are always written
EncodeToken(t) ==
    IF t.TokenType = "" /\ t.RefreshToken = ""
    THEN [access_token |-> t.AccessToken, expiry |-> t.Expiry]
    ELSE IF t.TokenType = ""
    THEN [access_token |-> t.AccessToken, refresh_token |-> t.RefreshToken,
          expiry |-> t.Expiry]
    ELSE IF t.RefreshToken = ""
    THEN [access_token |-> t.AccessToken, token_type |-> t.TokenType,
          expiry |-> t.Expiry]
    ELSE [access_token |-> t.AccessToken, token_type |-> t.TokenType,
          refresh_token |-> t.RefreshToken, expiry |-> t.Expiry]

\* gmailOAuth2.localToken: os.Open of the name, then the json decoding
localToken(name, file) ==
    IF name = "" \/ file.kind = "absent" THEN [err |-> OpenError, tok |-> NilToken]
    ELSE IF file.kind = "unreadable" THEN [err |-> ReadError, tok |-> NilToken]
    ELSE IF file.kind \in {"empty", "garbage"} THEN [err |-> DecodeError, tok |-> NilToken]
    ELSE IF file.kind = "null" THEN [err |-> Nil, tok |-> <<ZeroToken>>]
    ELSE [err |-> Nil, tok |-> <<DecodeToken(file.doc)>>]

\* saveToken: what it returns and what the file holds afterwards, for each
\* way the file system can answer
SaveOpenError == <<"got error opening file to save gmail oauth2 token into">>
SaveWriteError == <<"got error writing gmail oauth2 token into file">>
saveToken(file, t, fs) ==
    IF fs = "open fails" THEN [err |-> SaveOpenError, file |-> file]
    ELSE IF fs = "write fails" THEN [err |-> SaveWriteError, file |-> EmptyFile]
    ELSE IF t = NilToken THEN [err |-> Nil, file |-> NullFile]
    ELSE [err |-> Nil, file |-> JSONFile(EncodeToken(t[1]))]
FileSystemAnswers == {"ok", "open fails", "write fails"}

\* a GmailClientConfig handed to NewGmailClient
InitToken ==
    /\ InitListener
    /\ Port = 0
    /\ RedirectServerPort \in {0, DefaultPort}
    /\ las = "none"
    /\ cfg = "nil"
    /\ cpc = "none"
    /\ tok = NilToken
    /\ tok0 = tok
    /\ logger \in {"nil", "set"}
    /\ tokenFile \in TokenFileSamples
    /\ ltpc = "none"
    /\ gpc = "start"
    /\ gerr = NotReturned
    /\ tret = <<>>
    /\ TokenFile \in {"", defaultTokenFile}
    /\ UserInput \in UserInputSamples
    /\ credentials \in CredentialsSamples
    /\ saves = <<>>
    /\ log = <<>>
    /\ ApiIdle
    /\ ProcIdle
    /\ RunIdle

\* NewGmailClient up to its call of oauth.client(): cfg.OK(), the default
\* Logger, oauth.initializeConfig()
NewGmailClient ==
    /\ gpc = "start"
    /\ IF OK(credentials, UserInput, RedirectServerPort) # "ok"
       THEN /\ gerr' = OKError(OK(credentials, UserInput, RedirectServerPort))
            /\ gpc' = "failed"
            /\ UNCHANGED <<logger, cfg, log>>
       ELSE /\ logger' = "set"
            /\ IF credentials # "valid"
               THEN /\ gerr' = InitConfigError(credentials)
                    /\ gpc' = "failed"
                    /\ log' = Append(log, "building gmail oauth2 configuration")
                    /\ UNCHANGED cfg
               ELSE /\ cfg' = "loaded"
                    /\ gpc' = "token"
                    /\ log' = log \o <<"building gmail oauth2 configuration",
                                       "successfully initialized google oauth2 configuration">>
                    /\ UNCHANGED gerr
    /\ UNCHANGED <<listenerVars, handlerVars, recvd, shutdownVars>>
    /\ UNCHANGED <<RedirectServerPort, tok, cpc, code, cerr, exchangeArg, exchangeRet>>
    /\ UNCHANGED <<tokenFile, tok0, ltpc, localErr, lterr, hc>>
    /\ UNCHANGED <<tret, TokenFile, UserInput, credentials, saves>>
    /\ UNCHANGED <<apiVars, procVars, runVars>>

\* token() up to the outcome of g.localToken(): the token of the file is
\* returned, or the remote fetch is announced
TokenLocalToken ==
    /\ gpc = "token"
    /\ LET r == localToken(TokenFile, tokenFile)
       IN  /\ localErr' = r.err
           /\ tok' = r.tok
           /\ IF r.err = Nil
              THEN /\ log' = Append(log, "successfully read gmail oauth2 token from file")
                   /\ tret' = <<[tok |-> r.tok, err |-> Nil]>>
                   /\ gpc' = "client"
              ELSE /\ log' = Append(log, "unable to read gmail oauth2 token from local file")
                   /\ gpc' = "remote"
                   /\ UNCHANGED tret
    /\ UNCHANGED <<listenerVars, handlerVars, recvd, shutdownVars>>
    /\ UNCHANGED <<RedirectServerPort, cfg, cpc, code, cerr, exchangeArg, exchangeRet>>
    /\ UNCHANGED <<logger, tokenFile, tok0, ltpc, lterr, hc>>
    /\ UNCHANGED <<gerr, TokenFile, UserInput, credentials, saves>>
    /\ UNCHANGED <<apiVars, procVars, runVars>>

\* remoteToken up to the middle of getAuthCode: the auth URL (that of a valid
\* credentials file parses), getAuthCode's argument checks, NewRedirectServer,
\* the goroutine running ListenAndServe, defer redirectSvr.Shutdown()
RemoteToken ==
    /\ gpc = "remote"
    /\ IF UserInput.nil \/ RedirectServerPort < 1
       THEN /\ LET e == RemoteTokenError(AuthCodeError(
                            IF UserInput.nil THEN NilInputError ELSE PortNotPositiveError))
               IN  /\ tret' = <<[tok |-> NilToken, err |-> e]>>
                   /\ gerr' = ClientError(TokenError(e))
            /\ gpc' = "failed"
            /\ UNCHANGED <<Port, las>>
       ELSE /\ Port' = RedirectServerPort
            /\ las' = "spawned"
            /\ gpc' = "scan"
            /\ UNCHANGED <<tret, gerr>>
    /\ log' = Append(log, "generated gmail oauth2 exchange url")
    /\ UNCHANGED <<authCodes, authCodeErrors, svr>>
    /\ UNCHANGED <<handlerVars, recvd, shutdownVars, coordVars, loadVars>>
    /\ UNCHANGED <<TokenFile, UserInput, credentials, saves>>
    /\ UNCHANGED <<apiVars, procVars, runVars>>

\* the rest of getAuthCode: fmt.Fscan(userInput, &authCode), then the deferred
\* redirectSvr.Shutdown()
GetAuthCodeScan ==
    /\ gpc = "scan"
    /\ svr' = "shutdown"
    /\ IF UserInput.words = <<>>
       THEN /\ LET e == RemoteTokenError(AuthCodeError(ScanError))
               IN  /\ tret' = <<[tok |-> NilToken, err |-> e]>>
                   /\ gerr' = ClientError(TokenError(e))
            /\ gpc' = "failed"
            /\ UNCHANGED <<code, UserInput, log>>
       ELSE /\ code' = Head(UserInput.words)
            /\ UserInput' = [UserInput EXCEPT !.words = Tail(@)]
            /\ log' = Append(log, "got authentication code from user input")
            /\ gpc' = "exchange"
            /\ UNCHANGED <<tret, gerr>>
    /\ UNCHANGED <<Port, authCodes, authCodeErrors, las>>
    /\ UNCHANGED <<handlerVars, recvd, shutdownVars, loadVars>>
    /\ UNCHANGED <<RedirectServerPort, cfg, tok, cpc, cerr, exchangeArg, exchangeRet>>
    /\ UNCHANGED <<TokenFile, credentials, saves>>
    /\ UNCHANGED <<apiVars, procVars, runVars>>

\* remoteToken's Exchange with the error check left out: token() goes on to
\* the save whatever Exchange returned
RemoteTokenExchangeUnchecked ==
    /\ gpc = "exchange"
    /\ exchangeArg' = code
    /\ \/ /\ gpc' = "save"
          /\ UNCHANGED <<tok, exchangeRet, log, tret, gerr>>
       \/ /\ \E t \in ExchangeTokens :
                /\ exchangeRet' = <<t>>
                /\ tok' = <<t>>
          /\ log' = Append(log, "successfully fetched gmail oauth2 token")
          /\ gpc' = "save"
          /\ UNCHANGED <<tret, gerr>>
    /\ UNCHANGED <<listenerVars, handlerVars, recvd, shutdownVars, loadVars>>
    /\ UNCHANGED <<RedirectServerPort, cfg, cpc, code, cerr>>
    /\ UNCHANGED <<TokenFile, UserInput, credentials, saves>>
    /\ UNCHANGED <<apiVars, procVars, runVars>>

\* return g.oauthCfg.Exchange(ctx, authCode) and token()'s check of the error
RemoteTokenExchange ==
    /\ gpc = "exchange"
    /\ exchangeArg' = code
    /\ \/ /\ tret' = <<[tok |-> NilToken, err |-> RemoteTokenError(ExchangeError)]>>
          /\ gerr' = ClientError(TokenError(RemoteTokenError(ExchangeError)))
          /\ gpc' = "failed"
          /\ UNCHANGED <<tok, exchangeRet, log>>
       \/ /\ \E t \in ExchangeTokens :
                /\ exchangeRet' = <<t>>
                /\ tok' = <<t>>
          /\ log' = Append(log, "successfully fetched gmail oauth2 token")
          /\ gpc' = "save"
          /\ UNCHANGED <<tret, gerr>>
    /\ UNCHANGED <<listenerVars, handlerVars, recvd, shutdownVars, loadVars>>
    /\ UNCHANGED <<RedirectServerPort, cfg, cpc, code, cerr>>
    /\ UNCHANGED <<TokenFile, UserInput, credentials, saves>>
    /\ UNCHANGED <<apiVars, procVars, runVars>>

\* the end of token() with the error of saveToken returned
TokenSaveTokenFatal ==
    /\ gpc = "save"
    /\ \E fs \in FileSystemAnswers :
          LET name == IF TokenFile = "" THEN defaultTokenFile ELSE TokenFile
              r == saveToken(tokenFile, tok, fs)
          IN  /\ saves' = Append(saves, [file |-> name, tok |-> tok, err |-> r.err])
              /\ tokenFile' = r.file
              /\ IF r.err # Nil
                 THEN /\ log' = Append(log, "got error saving token to file")
                      /\ tret' = <<[tok |-> NilToken, err |-> r.err]>>
                      /\ gerr' = ClientError(TokenError(r.err))
                      /\ gpc' = "failed"
                 ELSE /\ log' = Append(log, "successfully wrote gmail oauth2 token to file")
                      /\ tret' = <<[tok |-> tok, err |-> Nil]>>
                      /\ gpc' = "client"
                      /\ UNCHANGED gerr
    /\ UNCHANGED <<listenerVars, handlerVars, recvd, shutdownVars, coordVars>>
    /\ UNCHANGED <<logger, tok0, ltpc, localErr, lterr, hc>>
    /\ UNCHANGED <<TokenFile, UserInput, credentials>>
    /\ UNCHANGED <<apiVars, procVars, runVars>>

\* the end of token(): the default file name, saveToken, the two log lines
\* and return tok, nil
TokenSaveToken ==
    /\ gpc = "save"
    /\ \E fs \in FileSystemAnswers :
          LET name == IF TokenFile = "" THEN defaultTokenFile ELSE TokenFile
              r == saveToken(tokenFile, tok, fs)
          IN  /\ saves' = Append(saves, [file |-> name, tok |-> tok, err |-> r.err])
              /\ tokenFile' = r.file
              /\ log' = log \o (IF r.err # Nil
                                THEN <<"got error saving token to file">> ELSE <<>>)
                            \o <<"successfully wrote gmail oauth2 token to file">>
    /\ tret' = <<[tok |-> tok, err |-> Nil]>>
    /\ gpc' = "client"
    /\ UNCHANGED <<listenerVars, handlerVars, recvd, shutdownVars, coordVars>>
    /\ UNCHANGED <<logger, tok0, ltpc, localErr, lterr, hc>>
    /\ UNCHANGED <<gerr, TokenFile, UserInput, credentials>>
    /\ UNCHANGED <<apiVars, procVars, runVars>>

ServiceError == <<"got error creating new gmail service">>

\* client() hands the token to g.oauthCfg.Client; NewGmailClient builds the
\* gmail service on the http client and returns
ClientReturn ==
    /\ gpc = "client"
    /\ hc' = <<[client |-> tok, err |-> Nil]>>
    /\ gerr' \in {Nil, ServiceError}
    /\ gpc' = "done"
    /\ UNCHANGED <<listenerVars, handlerVars, recvd, shutdownVars, coordVars>>
    /\ UNCHANGED <<logger, tokenFile, tok0, ltpc, localErr, lterr>>
    /\ UNCHANGED <<tret, TokenFile, UserInput, credentials, saves, log>>
    /\ UNCHANGED <<apiVars, procVars, runVars>>

NextToken ==
    \/ NewGmailClient
    \/ TokenLocalToken
    \/ RemoteToken
    \/ GetAuthCodeScan
    \/ RemoteTokenExchange
    \/ TokenSaveToken
    \/ ClientReturn
    \/ ListenAndServe
    \/ ListenAndServeReturn

SpecToken == InitToken /\ [][NextToken]_vars

\* ------------------------------------------------------------------ claims

Finished(r) == hpc[r] \in {"done", "panicked"}
SentOn(k) == Cardinality(UNION {{<<r, i>> : i \in {j \in DOMAIN sent[r] : sent[r][j].sink = k}} :
                                  r \in Requests})
NobodyReceived == recvd.authCodes = 0 /\ recvd.authCodeErrors = 0

\* C1: no Handler invocation sends on authCodes or authCodeErrors after
\* Shutdown has closed the channel: no send ever panics on a closed channel.
NoSendOnClosedChannel == \A r \in Requests : hpc[r] # "panicked"

\* C2: Shutdown is idempotent: however many times and however concurrently it
\* is called, no call panics on closing an already closed sink, and once all
\* calls have ended the listener is stopped.
ShutdownIdempotent ==
    /\ \A s \in ShutdownCallers : spc[s] # "panicked"
    /\ (shutdownCalls > 0 /\ \A s \in ShutdownCallers : spc[s] \in {"idle", "done"})
          => svr = "shutdown"

\* C3: in loadRemoteToken, once the redirect listener has been created it is
\* shut down exactly once on every way the operation ends: Shutdown is never
\* invoked twice, and when the operation has ended it was invoked once, ran to
\* its end and left the server stopped.
ShutdownExactlyOnce ==
    /\ shutdownCalls <= 1
    /\ (cpc = "returned" /\ Port # 0)
          => (shutdownCalls = 1 /\ spc[1] = "done" /\ svr = "shutdown")

\* C3 witness: the operation ended on a failed code exchange, listener shut
\* down
ShutdownAfterFailedExchange ==
    /\ cpc = "returned"
    /\ cerr = ExchangeError
    /\ shutdownCalls = 1

\* C4: every GET request with state "state-token" and a non-empty code c gets
\* status 200, places exactly one signal, carrying c, on the auth-code sink and
\* none on the error sink.
ValidRequestYieldsCode ==
    \A r \in Requests :
        (/\ Finished(r)
         /\ req[r].method = "GET"
         /\ Get(req[r].state) = "state-token"
         /\ Get(req[r].code) # "")
        => /\ status[r] = 200
           /\ sent[r] = <<[sink |-> "authCodes", val |-> Get(req[r].code)]>>

\* C5: every request whose method is not GET, whatever its query, gets status
\* 405, produces exactly one error signal, naming the method, and no code
\* signal.
NonGetYieldsMethodError ==
    \A r \in Requests :
        (Finished(r) /\ req[r].method # "GET")
        => /\ status[r] = 405
           /\ Len(sent[r]) = 1
           /\ sent[r][1].sink = "authCodeErrors"
           /\ sent[r][1].val[2] = req[r].method

\* C6: every GET request whose state parameter is missing or differs from
\* "state-token", whatever its code, gets status 400, produces an error signal
\* and never a code signal.
BadStateYieldsError ==
    \A r \in Requests :
        (/\ Finished(r)
         /\ req[r].method = "GET"
         /\ (req[r].state = <<>> \/ req[r].state[1] # "state-token"))
        => /\ status[r] = 400
           /\ Len(sent[r]) >= 1
           /\ \A i \in 1..Len(sent[r]) : sent[r][i].sink = "authCodeErrors"

\* C7: every GET request with state "state-token" and a missing or empty code
\* gets status 400, produces an error signal and no code signal.
EmptyCodeYieldsError ==
    \A r \in Requests :
        (/\ Finished(r)
         /\ req[r].method = "GET"
         /\ req[r].state # <<>>
         /\ req[r].state[1] = "state-token"
         /\ (req[r].code = <<>> \/ req[r].code[1] = ""))
        => /\ status[r] = 400
           /\ Len(sent[r]) >= 1
           /\ \A i \in 1..Len(sent[r]) : sent[r][i].sink # "authCodes"

\* C8: the Handler never blocks waiting for a consumer: while nobody has
\* received from the sinks, no Handler invocation stands at its send with the
\* open sink full.
HandlerNeverBlocks ==
    NobodyReceived =>
        \A r \in Requests :
            hpc[r] = "send" =>
                LET ch == Chan(Head(plan[r]).sink)
                IN  ch.closed \/ Len(ch.buf) < SinkCap

\* C9 as claimed: over the life of the listener each sink is sent on at most
\* once.
EachSinkSentAtMostOnce ==
    /\ SentOn("authCodes") <= 1
    /\ SentOn("authCodeErrors") <= 1

\* C9 amended: delivery is at-most-once per request: each Handler invocation
\* sends at most one signal (exactly one when it returns), and a sink is sent
\* on again only after its previous signal was received.
EachRequestSignalsAtMostOnce ==
    /\ \A r \in Requests :
          /\ Len(sent[r]) <= 1
          /\ hpc[r] = "done" => Len(sent[r]) = 1
    /\ SentOn("authCodes") <= recvd.authCodes + 1
    /\ SentOn("authCodeErrors") <= recvd.authCodeErrors + 1

\* C9 witness: the error sink was sent on twice in the life of one listener
ErrorSinkSentTwice ==
    /\ SentOn("authCodeErrors") = 2
    /\ recvd.authCodeErrors >= 1

\* C10 as claimed: the signals buffered in the two sinks number at most one.
AtMostOnePending == Len(authCodes.buf) + Len(authCodeErrors.buf) <= 1

\* C10 amended: each sink buffers at most one unconsumed signal, so at most
\* two outcomes, one per sink, are pending.
AtMostOnePendingPerSink ==
    /\ Len(authCodes.buf) <= 1
    /\ Len(authCodeErrors.buf) <= 1

\* C10 witness: a code and an error are pending together
BothSinksPending ==
    /\ Len(authCodes.buf) = 1
    /\ Len(authCodeErrors.buf) = 1

\* ---------------------------------------------------- claims on LoadToken

WellFormedTokenFile == tokenFile = JSONFile(WellFormedDoc)
LoadTokenOver == ltpc \in {"returned", "panicked"}
LocalLoadFailed == localErr \notin {NotReturned, Nil}
RemoteAttempted == cpc # "none"
ValidRequestWithCode(c) ==
    \E r \in Requests :
        /\ req[r].method = "GET"
        /\ Get(req[r].state) = StateToken
        /\ Get(req[r].code) = c
        /\ c # ""

\* C11: when the token file exists and holds a well-formed credential,
\* LoadToken completes successfully, no listener is created or started, no
\* exchange is performed, and the stored token equals the credential of the
\* file.
LocalTokenLoadsWithoutListener ==
    (WellFormedTokenFile /\ ltpc # "start") =>
        /\ ltpc = "returned"
        /\ lterr = Nil
        /\ Port = 0
        /\ las = "none"
        /\ ~RemoteAttempted
        /\ exchangeArg = "none"
        /\ tok = <<Token("ab12.gophercd4567", "Bearer", "1//gopher9876",
                         "2022-08-16T12:00:42.516357003-04:00")>>

\* C12: LoadToken tries the local token file first; the remote exchange is
\* attempted if and only if the local load failed, whatever the cause; when
\* the remote attempt fails too, LoadToken returns the remote attempt's error.
RemoteIffLocalFailed ==
    /\ RemoteAttempted => LocalLoadFailed
    /\ (ltpc # "start" /\ LocalLoadFailed) => RemoteAttempted
    /\ (LoadTokenOver /\ cpc = "returned" /\ cerr # Nil) =>
           (ltpc = "returned" /\ lterr = cerr)

\* C13: when the local load has failed and the outcome the coordinator
\* consumes is a request with state "state-token" and a non-empty code c, the
\* exchange receives exactly c and the token stored afterwards is the one
\* the exchange returned.
ExchangeReceivesConsumedCode ==
    /\ cpc = "exchange" => (LocalLoadFailed /\ ValidRequestWithCode(code))
    /\ exchangeArg # "none" => (exchangeArg = code /\ ValidRequestWithCode(exchangeArg))
    /\ exchangeRet # NilToken => tok = exchangeRet
    /\ (exchangeArg # "none" /\ cerr = Nil /\ ltpc = "returned") =>
           (tok = exchangeRet /\ tok # NilToken)

ExchangedAfterLocalFailure ==
    /\ ltpc = "returned"
    /\ localErr = DecodeError
    /\ exchangeArg = "xyz"
    /\ tok \in {<<t>> : t \in ExchangeTokens}
    /\ tok # tok0

\* C14: when the coordinator receives from the error sink it returns that
\* error, no exchange is attempted and the stored token is left as it was.
ErrorSignalLeavesTokenUnchanged ==
    recvd.authCodeErrors > 0 =>
        /\ exchangeArg = "none"
        /\ exchangeRet = NilToken
        /\ tok = tok0
        /\ \E r \in Requests : \E i \in DOMAIN sent[r] :
               sent[r][i].sink = "authCodeErrors" /\ sent[r][i].val = cerr
        /\ cpc = "returned" => cerr # Nil
        /\ ltpc = "returned" => lterr = cerr

ErrorReturnedTokenKept ==
    /\ ltpc = "returned"
    /\ recvd.authCodeErrors > 0
    /\ lterr = StateError
    /\ tok = tok0
    /\ tok # NilToken

\* C15: every signal other than the first consumed outcome is drained and
\* ignored: once the coordinator has consumed an outcome, shut the listener
\* down and returned, no signal is pending in a sink, no handler is left at its
\* send or ended by a panic, and exactly one outcome has been consumed.
LeftoverSignalsDrained ==
    (cpc = "returned" /\ recvd.authCodes + recvd.authCodeErrors > 0) =>
        /\ authCodes.buf = <<>>
        /\ authCodeErrors.buf = <<>>
        /\ \A r \in Requests : hpc[r] \notin {"send", "panicked"}
        /\ recvd.authCodes + recvd.authCodeErrors = 1

\* C16: the coordinator invokes Shutdown only after it has obtained an
\* outcome from a sink or abandoned the attempt; while it is still to wait or
\* is waiting, Shutdown has not been invoked, both sinks are open and the
\* http server has not been shut down.
ShutdownOnlyAfterOutcome ==
    /\ cpc \in {"start", "authURL", "select"} =>
           /\ shutdownCalls = 0
           /\ spc[1] = "idle"
           /\ ~authCodes.closed
           /\ ~authCodeErrors.closed
           /\ svr # "shutdown"
    /\ shutdownCalls > 0 =>
           \/ recvd.authCodes + recvd.authCodeErrors = 1
           \/ cerr = NilDereference

ShutdownAfterConsumedCode ==
    /\ shutdownCalls = 1
    /\ svr = "shutdown"
    /\ recvd.authCodes = 1
    /\ exchangeArg = "abc"

\* ------------------------------------------ claims on saving the token

ExchangeSucceeded == exchangeArg # "none" /\ exchangeRet # NilToken
SaveFailed == saves # <<>> /\ saves[1].err # Nil

\* C17: the token file is written only after a code exchange has succeeded:
\* every call of saveToken comes after a successful exchange of the same run
\* and writes the token that exchange returned, and a token file that was
\* read successfully is never written.
SaveOnlyAfterSuccessfulExchange ==
    /\ saves # <<>> =>
           /\ ExchangeSucceeded
           /\ localErr \notin {NotReturned, Nil}
           /\ \A i \in DOMAIN saves : saves[i].tok = exchangeRet
    /\ gpc \in {"start", "token", "remote", "scan", "exchange", "failed"} => saves = <<>>

SavedAfterExchange ==
    /\ gpc = "done"
    /\ Len(saves) = 1
    /\ saves[1].err = Nil
    /\ tokenFile = JSONFile(EncodeToken(exchangeRet[1]))
    /\ exchangeArg = "4/abc"

\* C18: after every successful remote exchange, a write of the obtained
\* credential to the token file is attempted exactly once before the token
\* is handed to the client factory.
SaveAttemptedOnceBeforeClient ==
    (ExchangeSucceeded /\ hc # <<>>) =>
        /\ Len(saves) = 1
        /\ saves[1].tok = exchangeRet

\* C19: when saving the remotely obtained credential fails, token() still
\* returns the credential with a nil error, the failure is logged, and the
\* client is built on that credential.
SaveFailureIsNotFatal ==
    SaveFailed =>
        /\ tret = <<[tok |-> exchangeRet, err |-> Nil]>>
        /\ \E i \in DOMAIN log : log[i] = "got error saving token to file"
        /\ gpc \in {"client", "done"}
        /\ gpc = "done" => hc = <<[client |-> exchangeRet, err |-> Nil]>>

ClientBuiltAfterFailedSave ==
    /\ gpc = "done"
    /\ SaveFailed
    /\ saves[1].err = SaveWriteError
    /\ tokenFile = EmptyFile
    /\ hc = <<[client |-> exchangeRet, err |-> Nil]>>
    /\ gerr = Nil

\* C20: a missing or invalid provider configuration makes the flow fail
\* before any redirect listener is created or started: whenever a listener has
\* been constructed or its goroutine spawned, the OAuth2 configuration has
\* been loaded.
NoListenerWithoutConfig ==
    (Port # 0 \/ las # "none") => cfg = "loaded"

\* ------------------------------------- claims on Client and construction

\* C21: OAuth2.Client returns an error and no client whenever the stored
\* configuration or the stored token is nil, returns a client (built on the
\* stored token) only when both are present, and modifies neither.
ClientNeedsConfigAndToken ==
    /\ [](hc # <<>> =>
            IF cfg = "nil" \/ tok = NilToken
            THEN hc[1].err # Nil /\ hc[1].client = NilToken
            ELSE hc[1].err = Nil /\ hc[1].client = tok)
    /\ [][hc' # hc => (cfg' = cfg /\ tok' = tok)]_vars

ClientRefusedNilToken ==
    /\ hc # <<>>
    /\ cfg = "loaded"
    /\ tok = NilToken
    /\ hc[1].err = TokNilError

ScopedDoc == [access_token |-> "ab12.gophercd4567", token_type |-> "Bearer",
              refresh_token |-> "1//gopher9876",
              expiry |-> "2022-08-16T12:00:42.516357003-04:00",
              scope |-> "gmail.readonly"]
EmptyTypeDoc == [access_token |-> "ab12.gophercd4567", token_type |-> "",
                 expiry |-> "2022-08-16T12:00:42.516357003-04:00"]
RoundTripFiles ==
    TokenFileSamples \cup {JSONFile(ScopedDoc), JSONFile(EmptyTypeDoc), BadExpiryFile}

\* the io.Reader handed to LoadToken: nil, or a reader over some content
NilReader == [kind |-> "nil"]
Readers == {NilReader, UnreadableFile, EmptyFile, GarbageFile, BadExpiryFile,
            JSONFile(WellFormedDoc)}
TokenReaderNilError == <<"token must not be nil">>
RoundTripTokens ==
    {NilToken} \cup {<<t>> : t \in ExchangeTokens \cup StoredTokens \cup {ZeroToken}}

PermissionError == <<"open", "permission denied">>
WriteError == <<"write", "no space left on device">>
TokNilGetError == <<"underlying oauth2 token in oauth2 struct must not be nil">>

\* OAuth2.GetToken: the bytes json.NewEncoder(bfr).Encode(o.tok) leaves in the
\* buffer, written as the file those bytes make; no bytes for a nil token
GetTokenResult(t) ==
    IF t = NilToken THEN [bytes |-> EmptyFile, err |-> TokNilGetError]
    ELSE [bytes |-> JSONFile(EncodeToken(t[1])), err |-> Nil]

\* OAuth2.SaveToken: os.OpenFile with O_TRUNC, then the encoding of o.tok
\* (nil is encoded as null); what it returns and what the file then holds
SaveTokenResult(file, t, fs) ==
    IF fs = "open fails" THEN [err |-> PermissionError, file |-> file]
    ELSE IF fs = "write fails" THEN [err |-> WriteError, file |-> EmptyFile]
    ELSE IF t = NilToken THEN [err |-> Nil, file |-> NullFile]
    ELSE [err |-> Nil, file |-> JSONFile(EncodeToken(t[1]))]

MaxOps == 3
Push(ops, o) == IF Len(ops) < MaxOps THEN Append(ops, o) ELSE Append(Tail(ops), o)
LastOps(n) == IF Len(rt.ops) < n THEN <<>>
              ELSE SubSeq(rt.ops, Len(rt.ops) - n + 1, Len(rt.ops))

\* an OAuth2 value holding any token, beside any token file
InitRoundTrip ==
    /\ InitListener
    /\ Port = 0
    /\ RedirectServerPort = DefaultPort
    /\ las = "none"
    /\ cfg = "loaded"
    /\ cpc = "none"
    /\ tok \in RoundTripTokens
    /\ tok0 = tok
    /\ logger = "set"
    /\ tokenFile \in RoundTripFiles
    /\ ltpc = "none"
    /\ RootIdle
    /\ ApiIdle
    /\ ProcIdle
    /\ RunIdle

SaveToken ==
    \E fs \in FileSystemAnswers :
        LET r == SaveTokenResult(tokenFile, tok, fs)
        IN  /\ tokenFile' = r.file
            /\ rt' = [rt EXCEPT !.saved = IF r.err = Nil THEN <<tok>> ELSE @,
                                !.ops = Push(@, IF r.err = Nil THEN "save"
                                                ELSE "saveFailed")]
            /\ UNCHANGED <<tok, got, lasRet>>
            /\ UNCHANGED <<listenerVars, handlerVars, recvd, shutdownVars, coordVars>>
            /\ UNCHANGED <<logger, tok0, ltpc, localErr, lterr, hc>>
            /\ UNCHANGED <<rootVars, procVars, runVars>>

LoadLocalToken ==
    LET r == loadLocalToken(tokenFile, tok)
    IN  /\ tok' = r.tok
        /\ rt' = [rt EXCEPT !.loaded = IF r.err = Nil THEN <<tokenFile>> ELSE @,
                            !.ops = Push(@, IF r.err = Nil THEN "load"
                                            ELSE "loadFailed")]
        /\ UNCHANGED <<tokenFile, got, lasRet>>
        /\ UNCHANGED <<listenerVars, handlerVars, recvd, shutdownVars>>
        /\ UNCHANGED <<RedirectServerPort, cfg, cpc, code, cerr, exchangeArg, exchangeRet>>
        /\ UNCHANGED <<logger, tok0, ltpc, localErr, lterr, hc>>
        /\ UNCHANGED <<rootVars, procVars, runVars>>

GetToken ==
    LET r == GetTokenResult(tok)
    IN  /\ got' = <<r>>
        /\ rt' = [rt EXCEPT !.ops = Push(@, IF r.err = Nil THEN "get"
                                            ELSE "getFailed")]
        /\ UNCHANGED <<tok, tokenFile, lasRet>>
        /\ UNCHANGED <<listenerVars, handlerVars, recvd, shutdownVars, coordVars>>
        /\ UNCHANGED <<logger, tok0, ltpc, localErr, lterr, hc>>
        /\ UNCHANGED <<rootVars, procVars, runVars>>

\* LoadToken(token io.Reader): the nil check, then the same decoding into a
\* local variable as loadLocalToken
LoadTokenResult(reader, old) ==
    IF reader = NilReader THEN [err |-> TokenReaderNilError, tok |-> old]
    ELSE loadLocalToken(reader, old)

LoadTokenFromReader ==
    \E reader \in Readers :
        LET r == LoadTokenResult(reader, tok)
        IN  /\ tok' = r.tok
            /\ rt' = [rt EXCEPT !.ops = Push(@, IF r.err = Nil THEN "read"
                                                ELSE "loadFailed")]
            /\ UNCHANGED <<tokenFile, got, lasRet>>
            /\ UNCHANGED <<listenerVars, handlerVars, recvd, shutdownVars>>
            /\ UNCHANGED <<RedirectServerPort, cfg, cpc, code, cerr, exchangeArg, exchangeRet>>
            /\ UNCHANGED <<logger, tok0, ltpc, localErr, lterr, hc>>
            /\ UNCHANGED <<rootVars, procVars, runVars>>

NextRoundTrip ==
    \/ SaveToken
    \/ LoadLocalToken
    \/ LoadTokenFromReader
    \/ GetToken

SpecRoundTrip == InitRoundTrip /\ [][NextRoundTrip]_vars

\* ------------------------------------------------ the fan-out over alerts

Alert(q, target, title, sound, msg) ==
    [GmailQuery |-> q, PushoverTarget |-> target, PushoverTitle |-> title,
     PushoverSound |-> sound, PushoverMsg |-> msg]
ValidAlert == Alert("is:unread", "abce", "title", "siren", "message")
AlertSamples == { ValidAlert,
                  Alert("", "abcd", "title", "siren", "got an alert"),
                  Alert("is:unread", "", "title", "siren", "got an alert"),
                  Alert("is:unread", "abce", "", "siren", "got an alert"),
                  Alert("is:unread", "abce", "title", "", "got an alert"),
                  Alert("is:unread", "abce", "title", "siren", "") }
AlertLists == UNION {[1..n -> AlertSamples] : n \in 0..NumAlerts}
MaxEmails == 2

QueryFieldError == <<"error: alert must have a non-empty gmail query field">>
TitleFieldError == <<"error: alert must have a non-empty pushover title field">>
SoundFieldError == <<"error: alert must have a non-empty pushover sound field">>
TargetFieldError == <<"error: alert must have a non-empty pushover target field">>
FindError == <<"find emails", "failed">>
SendError == <<"send alert", "failed">>
MatchError == <<"match", "failed">>
NotifyError == <<"notify", "failed">>
AlerterNilFieldError == <<"alerter must have non-nil matcher, notifier, and logger fields">>

\* Alert.OK of package cli
AlertOK(a) ==
    IF a.GmailQuery = "" THEN QueryFieldError
    ELSE IF a.PushoverTitle = "" THEN TitleFieldError
    ELSE IF a.PushoverSound = "" THEN SoundFieldError
    ELSE IF a.PushoverTarget = "" THEN TargetFieldError
    ELSE Nil

\* processor.AlarmOnResult, for a result with n matching emails
AlarmOnResult(n) == n > 0

\* a group that keeps the error of the last goroutine to fail
ErrOnceKeepsLast(cur, e) == IF e # Nil THEN e ELSE cur

\* errgroup.Group: errOnce.Do keeps the first non-nil error returned
ErrOnce(cur, e) == IF e # Nil /\ cur = Nil THEN e ELSE cur

Tasks == 1..Len(alerts)
Spawned == [i \in Alerts |-> IF i \in Tasks THEN "spawned" ELSE "none"]

\* a Processor as cli.Run builds it, or an Alerter with at most one nil
\* field, about to process a list of alerts
InitProcess ==
    /\ InitListener
    /\ Port = 0
    /\ RedirectServerPort = DefaultPort
    /\ las = "none"
    /\ cfg = "loaded"
    /\ cpc = "none"
    /\ tok = NilToken
    /\ tok0 = tok
    /\ logger = "set"
    /\ tokenFile = AbsentFile
    /\ ltpc = "none"
    /\ RootIdle
    /\ ApiIdle
    /\ RunIdle
    /\ pkind \in {"Processor", "Alerter"}
    /\ nilField \in (IF pkind = "Alerter" THEN {"none", "Matcher", "Notifier", "Logger"}
                     ELSE {"none"})
    /\ alerts \in AlertLists
    /\ ppc = "start"
    /\ pret = NotReturned
    /\ tpc = [i \in Alerts |-> "none"]
    /\ found = [i \in Alerts |-> <<>>]
    /\ notified = [i \in Alerts |-> 0]
    /\ terr = [i \in Alerts |-> NotReturned]
    /\ plog = [i \in Alerts |-> <<>>]
    /\ grpErr = Nil
    /\ order = <<>>
    /\ variant \in (IF pkind = "Processor" THEN {"process.go", "part_006"} ELSE {"none"})
    /\ queried = [i \in Alerts |-> 0]
    /\ delivered = [i \in Alerts |-> <<>>]
    /\ numEmittedAlerts = 0
    /\ printed = <<>>

Others == <<listenerVars, handlerVars, recvd, shutdownVars, coordVars, loadVars,
            rootVars, apiVars, runVars>>

\* Processor.Process up to errGrp.Wait(): one goroutine per alert
ProcessorProcess ==
    /\ pkind = "Processor"
    /\ ppc = "start"
    /\ ppc' = "wait"
    /\ tpc' = Spawned
    /\ UNCHANGED <<pkind, nilField, alerts, pret, found, notified, terr, plog, grpErr, order>>
    /\ UNCHANGED Others
    /\ UNCHANGED emitVars

\* the goroutine of alert i returns e to the group
TaskReturn(i, e) ==
    /\ tpc' = [tpc EXCEPT ![i] = "done"]
    /\ terr' = [terr EXCEPT ![i] = e]
    /\ grpErr' = ErrOnce(grpErr, e)
    /\ order' = Append(order, i)

\* a goroutine that goes on to the query whatever alert.OK() returned
ProcessorOKUnchecked(i) ==
    /\ pkind = "Processor"
    /\ tpc[i] = "spawned"
    /\ tpc' = [tpc EXCEPT ![i] = "find"]
    /\ UNCHANGED <<terr, grpErr, order>>
    /\ UNCHANGED <<pkind, nilField, alerts, ppc, pret, found, notified, plog>>
    /\ UNCHANGED Others
    /\ UNCHANGED emitVars

\* err := alert.OK()
ProcessorOK(i) ==
    /\ pkind = "Processor"
    /\ tpc[i] = "spawned"
    /\ LET e == AlertOK(alerts[i])
       IN  IF e # Nil THEN TaskReturn(i, e)
           ELSE /\ tpc' = [tpc EXCEPT ![i] = "find"]
                /\ UNCHANGED <<terr, grpErr, order>>
    /\ UNCHANGED <<pkind, nilField, alerts, ppc, pret, found, notified, plog>>
    /\ UNCHANGED Others
    /\ UNCHANGED emitVars

\* p.EmailFinder.Run, the two Logger entries and AlarmOnResult
ProcessorFind(i) ==
    /\ pkind = "Processor"
    /\ tpc[i] = "find"
    /\ queried' = [queried EXCEPT ![i] = @ + 1]
    /\ \/ /\ TaskReturn(i, FindError)
          /\ UNCHANGED <<found, plog>>
       \/ \E n \in 0..MaxEmails :
             /\ found' = [found EXCEPT ![i] = <<n>>]
             /\ IF ~AlarmOnResult(n)
                THEN /\ plog' = [plog EXCEPT ![i] = @ \o <<"Found emails", "no alarm condition">>]
                     /\ TaskReturn(i, Nil)
                ELSE /\ plog' = [plog EXCEPT ![i] = Append(@, "Found emails")]
                     /\ tpc' = [tpc EXCEPT ![i] = "send"]
                     /\ UNCHANGED <<terr, grpErr, order>>
    /\ UNCHANGED <<pkind, nilField, alerts, ppc, pret, notified>>
    /\ UNCHANGED Others
    /\ UNCHANGED <<variant, delivered, numEmittedAlerts, printed>>

\* the message Process writes into alert.PushoverMsg
FoundMessage(n, q) == [emails |-> n, query |-> q]

\* the processor.Alert built for alert a with n matching emails: process.go
\* sets Message, Title and Recipient, part_006 sets Sound as well
ProcessorAlert(v, a, n) ==
    [Message |-> FoundMessage(n, a.GmailQuery), Title |-> a.PushoverTitle,
     Recipient |-> a.PushoverTarget,
     Sound |-> IF v = "part_006" THEN a.PushoverSound ELSE ""]

\* p.AlertSender.Run with the alert built for it; on an error the return, in
\* process.go the return after a send without error
ProcessorSend(i) ==
    /\ pkind = "Processor"
    /\ tpc[i] = "send"
    /\ notified' = [notified EXCEPT ![i] = @ + 1]
    /\ delivered' = [delivered EXCEPT
                        ![i] = Append(@, ProcessorAlert(variant, alerts[i], found[i][1]))]
    /\ \/ TaskReturn(i, SendError)
       \/ /\ variant = "process.go"
          /\ TaskReturn(i, Nil)
       \/ /\ variant = "part_006"
          /\ tpc' = [tpc EXCEPT ![i] = "count"]
          /\ UNCHANGED <<terr, grpErr, order>>
    /\ UNCHANGED <<pkind, nilField, alerts, ppc, pret, found, plog>>
    /\ UNCHANGED Others
    /\ UNCHANGED <<variant, queried, numEmittedAlerts, printed>>

\* a goroutine that stores 1 more than the counter held when it was spawned
ProcessorCountLosesUpdates(i) ==
    /\ pkind = "Processor"
    /\ tpc[i] = "count"
    /\ numEmittedAlerts' = 1
    /\ TaskReturn(i, Nil)
    /\ UNCHANGED <<pkind, nilField, alerts, ppc, pret, found, notified, plog>>
    /\ UNCHANGED Others
    /\ UNCHANGED <<variant, queried, delivered, printed>>

\* atomic.AddUint64(&numEmittedAlerts, 1) and the return that follows it; the
\* counter is a uint64 and gains at most one per alert, so it never wraps
ProcessorCount(i) ==
    /\ pkind = "Processor"
    /\ tpc[i] = "count"
    /\ numEmittedAlerts' = numEmittedAlerts + 1
    /\ TaskReturn(i, Nil)
    /\ UNCHANGED <<pkind, nilField, alerts, ppc, pret, found, notified, plog>>
    /\ UNCHANGED Others
    /\ UNCHANGED <<variant, queried, delivered, printed>>

\* a Wait that returns once the group holds an error
ProcessorWaitUntilError ==
    /\ pkind = "Processor"
    /\ ppc = "wait"
    /\ grpErr # Nil \/ \A i \in Tasks : tpc[i] = "done"
    /\ ppc' = "returned"
    /\ pret' = grpErr
    /\ UNCHANGED <<pkind, nilField, alerts, tpc, found, notified, terr, plog, grpErr, order>>
    /\ printed' = (IF variant = "part_006" THEN <<numEmittedAlerts>> ELSE printed)
    /\ UNCHANGED Others
    /\ UNCHANGED <<variant, queried, delivered, numEmittedAlerts>>

\* err := errGrp.Wait(), in part_006 the Printf of the counter, return err
ProcessorWait ==
    /\ pkind = "Processor"
    /\ ppc = "wait"
    /\ \A i \in Tasks : tpc[i] = "done"
    /\ ppc' = "returned"
    /\ pret' = grpErr
    /\ UNCHANGED <<pkind, nilField, alerts, tpc, found, notified, terr, plog, grpErr, order>>
    /\ printed' = (IF variant = "part_006" THEN <<numEmittedAlerts>> ELSE printed)
    /\ UNCHANGED Others
    /\ UNCHANGED <<variant, queried, delivered, numEmittedAlerts>>

\* Alerter.Process that does not look at its Logger field
AlerterProcessNoLoggerCheck ==
    /\ pkind = "Alerter"
    /\ ppc = "start"
    /\ IF nilField \in {"Matcher", "Notifier"}
       THEN /\ ppc' = "returned"
            /\ pret' = AlerterNilFieldError
            /\ UNCHANGED tpc
       ELSE /\ ppc' = "wait"
            /\ tpc' = Spawned
            /\ UNCHANGED pret
    /\ UNCHANGED <<pkind, nilField, alerts, found, notified, terr, plog, grpErr, order>>
    /\ UNCHANGED Others
    /\ UNCHANGED emitVars

\* Alerter.Process up to wg.Wait(): the check of the three fields, then one
\* goroutine per alert
AlerterProcess ==
    /\ pkind = "Alerter"
    /\ ppc = "start"
    /\ IF nilField # "none"
       THEN /\ ppc' = "returned"
            /\ pret' = AlerterNilFieldError
            /\ UNCHANGED tpc
       ELSE /\ ppc' = "wait"
            /\ tpc' = Spawned
            /\ UNCHANGED pret
    /\ UNCHANGED <<pkind, nilField, alerts, found, notified, terr, plog, grpErr, order>>
    /\ UNCHANGED Others
    /\ UNCHANGED emitVars

\* the goroutine of alert i ends (defer wg.Done()), e being what went wrong
AlerterReturn(i, e) ==
    /\ tpc' = [tpc EXCEPT ![i] = "done"]
    /\ terr' = [terr EXCEPT ![i] = e]
    /\ order' = Append(order, i)

\* a goroutine that goes on to notify whatever the number of matches
AlerterMatchAlwaysNotifies(i) ==
    /\ pkind = "Alerter"
    /\ tpc[i] = "spawned"
    /\ queried' = [queried EXCEPT ![i] = @ + 1]
    /\ \/ /\ plog' = [plog EXCEPT ![i] = Append(@, "got error searching for email matches")]
          /\ AlerterReturn(i, MatchError)
          /\ UNCHANGED found
       \/ \E n \in 0..MaxEmails :
             /\ found' = [found EXCEPT ![i] = <<n>>]
             /\ plog' = [plog EXCEPT ![i] = Append(@, "Found emails")]
             /\ tpc' = [tpc EXCEPT ![i] = "send"]
             /\ UNCHANGED <<terr, order>>
    /\ UNCHANGED <<pkind, nilField, alerts, ppc, pret, notified, grpErr>>
    /\ UNCHANGED Others
    /\ UNCHANGED <<variant, delivered, numEmittedAlerts, printed>>

\* a.Matcher.Match, the Logger entry that follows and the test of len(matches)
AlerterMatch(i) ==
    /\ pkind = "Alerter"
    /\ tpc[i] = "spawned"
    /\ queried' = [queried EXCEPT ![i] = @ + 1]
    /\ \/ /\ plog' = [plog EXCEPT ![i] = Append(@, "got error searching for email matches")]
          /\ AlerterReturn(i, MatchError)
          /\ UNCHANGED found
       \/ \E n \in 0..MaxEmails :
             /\ found' = [found EXCEPT ![i] = <<n>>]
             /\ plog' = [plog EXCEPT ![i] = Append(@, "Found emails")]
             /\ IF n = 0
                THEN AlerterReturn(i, Nil)
                ELSE /\ tpc' = [tpc EXCEPT ![i] = "send"]
                     /\ UNCHANGED <<terr, order>>
    /\ UNCHANGED <<pkind, nilField, alerts, ppc, pret, notified, grpErr>>
    /\ UNCHANGED Others
    /\ UNCHANGED <<variant, delivered, numEmittedAlerts, printed>>

\* a.Notifier.Notify and the Logger entry that follows
AlerterNotify(i) ==
    /\ pkind = "Alerter"
    /\ tpc[i] = "send"
    /\ notified' = [notified EXCEPT ![i] = @ + 1]
    /\ delivered' = [delivered EXCEPT ![i] =
          Append(@, [alerts[i] EXCEPT
                       !.PushoverMsg = FoundMessage(found[i][1], alerts[i].GmailQuery)])]
    /\ \/ /\ plog' = [plog EXCEPT ![i] = Append(@, "got error sending notification")]
          /\ AlerterReturn(i, NotifyError)
       \/ /\ plog' = [plog EXCEPT ![i] = Append(@, "notification successfully sent")]
          /\ AlerterReturn(i, Nil)
    /\ UNCHANGED <<pkind, nilField, alerts, ppc, pret, found, grpErr>>
    /\ UNCHANGED Others
    /\ UNCHANGED <<variant, queried, numEmittedAlerts, printed>>

\* wg.Wait(); return nil
AlerterWait ==
    /\ pkind = "Alerter"
    /\ ppc = "wait"
    /\ \A i \in Tasks : tpc[i] = "done"
    /\ ppc' = "returned"
    /\ pret' = Nil
    /\ UNCHANGED <<pkind, nilField, alerts, tpc, found, notified, terr, plog, grpErr, order>>
    /\ UNCHANGED Others
    /\ UNCHANGED emitVars

NextProcess ==
    \/ ProcessorProcess
    \/ \E i \in Tasks : ProcessorOK(i)
    \/ \E i \in Tasks : ProcessorFind(i)
    \/ \E i \in Tasks : ProcessorSend(i)
    \/ \E i \in Tasks : ProcessorCount(i)
    \/ ProcessorWait
    \/ AlerterProcess
    \/ \E i \in Tasks : AlerterMatch(i)
    \/ \E i \in Tasks : AlerterNotify(i)
    \/ AlerterWait

SpecProcess == InitProcess /\ [][NextProcess]_vars

\* ------------------------------------------- claims on serving and shutdown

\* C24: ListenAndServe returns nil exactly when serving ended because the
\* server was shut down, and returns the underlying error unchanged for every
\* other way serving ends.
ListenAndServeMapsServerClosed ==
    lasRet # <<>> =>
        /\ lasRet[1].ret = Nil <=> lasRet[1].under = ErrServerClosed
        /\ lasRet[1].under = ErrServerClosed => svr = "shutdown"
        /\ lasRet[1].under # ErrServerClosed => lasRet[1].ret = lasRet[1].under
        /\ las = (IF lasRet[1].ret = Nil THEN "returnedNil" ELSE "returnedErr")

BindErrorPropagated ==
    /\ lasRet # <<>>
    /\ lasRet[1].ret = BindError
    /\ las = "returnedErr"

Canonical(file) ==
    /\ file.kind = "object"
    /\ DOMAIN file.doc \subseteq {"access_token", "token_type", "refresh_token", "expiry"}
    /\ {"access_token", "expiry"} \subseteq DOMAIN file.doc
    /\ "token_type" \in DOMAIN file.doc => file.doc["token_type"] # ""
    /\ "refresh_token" \in DOMAIN file.doc => file.doc["refresh_token"] # ""

\* C23 as stated: a save followed by a load yields the saved token, and a load
\* followed by GetToken returns the bytes of the loaded document, for every
\* document that loads without error.
LoadThenGetIsIdentity ==
    /\ LastOps(2) = <<"save", "load">> => tok = rt.saved[1]
    /\ LastOps(2) = <<"load", "get">> => got[1].bytes = rt.loaded[1]

\* C23: saving a token that is present and loading it back yields a token equal
\* to the saved one; a load followed by GetToken returns the encoding of the
\* loaded token, which decodes to that token and is identical to the loaded
\* document exactly when that document is what the encoder writes.
RoundTripOnCanonicalDocuments ==
    /\ (LastOps(2) = <<"save", "load">> /\ rt.saved[1] # NilToken) => tok = rt.saved[1]
    /\ LastOps(2) = <<"load", "get">> =>
          /\ got[1].err = Nil
          /\ got[1].bytes.kind = "object"
          /\ <<DecodeToken(got[1].bytes.doc)>> = tok
          /\ got[1].bytes = rt.loaded[1] <=> Canonical(rt.loaded[1])

SavedLoadedAndEncoded ==
    /\ rt.ops = <<"save", "load", "get">>
    /\ rt.saved[1] # NilToken
    /\ tok = rt.saved[1]
    /\ got[1].bytes = rt.loaded[1]
    /\ tokenFile = rt.loaded[1]

\* --------------------------------------------------- claims on the fan-out

QueryFailures == {FindError, SendError, MatchError, NotifyError}
ErrorMessages == {"got error searching for email matches", "got error sending notification"}
ErrorEntries(l) == Cardinality({k \in DOMAIN l : l[k] \in ErrorMessages})
OKEntries(l) == Cardinality({k \in DOMAIN l : l[k] \notin ErrorMessages})
Matched(i) == found[i] # <<>> /\ found[i][1] > 0
SuccessfulMatch(i) == IF found[i] # <<>> THEN 1 ELSE 0
SuccessfulNotify(i) ==
    IF notified[i] = 1 /\ tpc[i] = "done" /\ terr[i] = Nil THEN 1 ELSE 0
RECURSIVE SumTo(_, _)
SumTo(f, n) == IF n = 0 THEN 0 ELSE f[n] + SumTo(f, n - 1)

\* the pipeline of alert i ran as far as its own results take it
PipelineComplete(i) ==
    /\ tpc[i] = "done"
    /\ IF pkind = "Processor" /\ AlertOK(alerts[i]) # Nil
       THEN terr[i] = AlertOK(alerts[i]) /\ found[i] = <<>> /\ notified[i] = 0
       ELSE /\ found[i] # <<>> \/ terr[i] \in {FindError, MatchError}
            /\ Matched(i) => notified[i] = 1 /\ terr[i] \in {Nil, SendError, NotifyError}
            /\ ~Matched(i) => notified[i] = 0

\* C26: in Processor.Process and Alerter.Process the failure of one alert's
\* query or notification changes nothing of another alert's goroutine; when
\* Process has returned after spawning the goroutines, every alert's pipeline
\* has run to its end.
FanOutIsolation ==
    /\ []((ppc = "returned" /\ nilField = "none") =>
            \A i \in Tasks : PipelineComplete(i))
    /\ [][\A i, j \in Alerts :
            (i # j /\ terr'[j] # terr[j] /\ terr'[j] \in QueryFailures) =>
               /\ tpc'[i] = tpc[i]
               /\ found'[i] = found[i]
               /\ notified'[i] = notified[i]
               /\ terr'[i] = terr[i]]_vars

NotifiedAfterAnotherFailed ==
    /\ ppc = "returned"
    /\ Len(alerts) = 2
    /\ order = <<1, 2>>
    /\ terr[1] \in QueryFailures
    /\ terr[2] = Nil
    /\ notified[2] = 1

\* C27: Alerter.Process with its three fields set returns nil for every list
\* of alerts, each failed match or notification leaving exactly one error
\* entry in the Logger; with a nil field it returns an error and no alert is
\* processed.
AlerterReturnsNilAndLogsFailures ==
    pkind = "Alerter" =>
        IF nilField # "none"
        THEN /\ ppc = "returned" => pret = AlerterNilFieldError
             /\ \A i \in Alerts : /\ tpc[i] = "none"
                                  /\ found[i] = <<>>
                                  /\ notified[i] = 0
                                  /\ plog[i] = <<>>
        ELSE /\ ppc = "returned" => pret = Nil
             /\ \A i \in Tasks :
                   tpc[i] = "done" =>
                      ErrorEntries(plog[i]) = (IF terr[i] # Nil THEN 1 ELSE 0)

NilReturnedDespiteFailures ==
    /\ pkind = "Alerter"
    /\ ppc = "returned"
    /\ pret = Nil
    /\ Len(alerts) = 2
    /\ terr[1] = MatchError
    /\ terr[2] = NotifyError
    /\ ErrorEntries(plog[1]) = 1
    /\ ErrorEntries(plog[2]) = 1

\* C28: in Alerter.Process the notifier is called at most once per alert, only
\* for an alert whose match succeeded with at least one email, and for each of
\* these once Process has returned; the entries of the Logger that report no
\* error number the successful matches plus the successful notifications.
NotifyOncePerMatch ==
    pkind = "Alerter" =>
        /\ \A i \in Alerts :
              /\ notified[i] <= 1
              /\ notified[i] = 1 => Matched(i)
              /\ (ppc = "returned" /\ Matched(i)) => notified[i] = 1
              /\ OKEntries(plog[i]) = SuccessfulMatch(i) + SuccessfulNotify(i)
        /\ SumTo([i \in Alerts |-> OKEntries(plog[i])], NumAlerts) =
              SumTo([i \in Alerts |-> SuccessfulMatch(i)], NumAlerts) +
              SumTo([i \in Alerts |-> SuccessfulNotify(i)], NumAlerts)

NotifiedOnlyTheMatchedAlert ==
    /\ pkind = "Alerter"
    /\ ppc = "returned"
    /\ Len(alerts) = 2
    /\ found[1] = <<0>>
    /\ notified[1] = 0
    /\ found[2] = <<2>>
    /\ notified[2] = 1
    /\ SumTo([i \in Alerts |-> OKEntries(plog[i])], NumAlerts) = 3

\* C29: Processor.Process returns nil exactly when the goroutine of every alert
\* returned nil; otherwise it returns the error of the first goroutine that
\* returned one, an error of the validation, the finder or the sender.
ProcessReturnsFirstError ==
    (pkind = "Processor" /\ ppc = "returned") =>
        /\ pret = Nil <=> \A i \in Tasks : terr[i] = Nil
        /\ pret # Nil =>
              \E k \in DOMAIN order :
                 /\ terr[order[k]] = pret
                 /\ \A m \in 1..(k - 1) : terr[order[m]] = Nil
        /\ pret # Nil =>
              pret \in {AlertOK(alerts[i]) : i \in Tasks} \cup {FindError, SendError}

FirstOfTwoErrorsReturned ==
    /\ pkind = "Processor"
    /\ ppc = "returned"
    /\ order = <<2, 1>>
    /\ terr[2] = SendError
    /\ terr[1] = QueryFieldError
    /\ pret = SendError

\* C30: Alert.OK returns an error whenever one of GmailQuery, PushoverTarget,
\* PushoverTitle, PushoverSound and PushoverMsg is empty, and nil when all
\* five have a value.
AnyFieldEmpty(a) ==
    \/ a.GmailQuery = ""
    \/ a.PushoverTarget = ""
    \/ a.PushoverTitle = ""
    \/ a.PushoverSound = ""
    \/ a.PushoverMsg = ""
FieldErrors == {QueryFieldError, TitleFieldError, SoundFieldError, TargetFieldError}
OKRejectsEveryEmptyField ==
    \A i \in Alerts :
        (pkind = "Processor" /\ tpc[i] \notin {"none", "spawned"}) =>
            (AnyFieldEmpty(alerts[i]) <=> (tpc[i] = "done" /\ terr[i] \in FieldErrors))

\* ------------------------------------------- claims on the stored token

\* the tokens an OAuth2 value can hold whole: those it was built with and the
\* decodings of the documents it can read
WholeTokens ==
    RoundTripTokens \cup
    {<<DecodeToken(f.doc)>> : f \in {g \in RoundTripFiles : g.kind = "object"}}
LastOp == IF rt.ops = <<>> THEN "none" ELSE rt.ops[Len(rt.ops)]

\* C31: a LoadToken or loadLocalToken that fails (nil reader, empty input,
\* undecodable JSON, unreadable or absent file) leaves o.tok exactly as it
\* was, and o.tok is never a mixture of the old token and a document.
FailedLoadKeepsToken ==
    /\ [](tok \in WholeTokens)
    /\ [][(rt'.ops # rt.ops /\ rt'.ops[Len(rt'.ops)] = "loadFailed")
            => tok' = tok]_vars

TokenKeptAfterHalfDecodedFile ==
    /\ LastOp = "loadFailed"
    /\ tokenFile = BadExpiryFile
    /\ tok # NilToken
    /\ tok = tok0

\* ------------------------------------- claims on what the fan-out sends

\* C32: every alert handed to the AlertSender by Processor.Process carries the
\* recipient, the title and the sound configured for its alert: its Sound is
\* the alert's PushoverSound.
SenderReceivesConfiguredSound ==
    pkind = "Processor" =>
        \A i \in Alerts : \A k \in DOMAIN delivered[i] :
            /\ delivered[i][k].Recipient = alerts[i].PushoverTarget
            /\ delivered[i][k].Title = alerts[i].PushoverTitle
            /\ delivered[i][k].Sound = alerts[i].PushoverSound

SentOK(i) == notified[i] = 1 /\ tpc[i] = "done" /\ terr[i] = Nil

\* C36: in the Processor.Process that counts its emitted alerts, the counter
\* always equals the number of goroutines that have returned after a send
\* without error, and the count printed after Wait is the number of alerts
\* whose AlertSender.Run returned nil.
CountPrintedEqualsSuccessfulSends ==
    (pkind = "Processor" /\ variant = "part_006") =>
        /\ numEmittedAlerts = Cardinality({i \in Tasks : SentOK(i)})
        /\ ppc = "returned" => printed = <<Cardinality({i \in Tasks : SentOK(i)})>>
        /\ ppc # "returned" => printed = <<>>

BothSendsCounted ==
    /\ pkind = "Processor"
    /\ variant = "part_006"
    /\ ppc = "returned"
    /\ Len(alerts) = 2
    /\ SentOK(1)
    /\ SentOK(2)
    /\ printed = <<2>>

\* C37: in Processor.Process an alert whose Alert.OK returns an error is
\* neither queried nor notified, an alert whose query failed or found no email
\* is not notified, and the finder and the sender are each called at most once
\* per alert.
NoQueryOrSendAfterFailure ==
    pkind = "Processor" =>
        \A i \in Tasks :
            /\ queried[i] <= 1
            /\ notified[i] <= 1
            /\ Len(delivered[i]) = notified[i]
            /\ AlertOK(alerts[i]) # Nil => queried[i] = 0 /\ notified[i] = 0
            /\ notified[i] = 1 => queried[i] = 1 /\ Matched(i)
            /\ terr[i] = FindError => notified[i] = 0

InvalidAndEmptyAlertsNotSent ==
    /\ pkind = "Processor"
    /\ ppc = "returned"
    /\ Len(alerts) = 2
    /\ AlertOK(alerts[1]) # Nil
    /\ queried[1] = 0
    /\ queried[2] = 1
    /\ found[2] = <<0>>
    /\ notified = [i \in Alerts |-> 0]

\* ------------------------------------------------------------------ cli.Run

\* the flags as fs.Parse leaves them in the cliEnv, or a parse failure
Args(parse, creds, alertsCfg, tokFile, port, debug) ==
    [parse |-> parse, credsFile |-> creds, alertsConfigFile |-> alertsCfg,
     tokenFile |-> tokFile, port |-> port, debug |-> debug]
ArgsSamples ==
    {Args("bad flag", "credentials.json", "alerts.json", "token.json", DefaultPort, FALSE)}
    \cup {Args("ok", c, a, "token.json", p, d) :
             c \in {"", "credentials.json"}, a \in {"", "alerts.json"},
             p \in {MinPort - 1, DefaultPort}, d \in BOOLEAN}
RunCredentialsSamples == {"absent", "empty", "invalid", "valid"}

FlagParseError == <<"flag provided but not defined">>
FlagsEmptyError ==
    <<"command line flags \"-credentials-file\" \"-alerts-cfg-file\" must be non-empty">>
GoogleCfgEmptyError == <<"google configuration must not be empty">>

\* cliEnv.fromArgs
fromArgs(a) ==
    IF a.parse # "ok" THEN FlagParseError
    ELSE IF a.credsFile = "" \/ a.alertsConfigFile = "" THEN FlagsEmptyError
    ELSE Nil

\* cli.Run about to start: no OAuth2 value exists yet
InitRun ==
    /\ InitListener
    /\ Port = 0
    /\ RedirectServerPort = 0
    /\ las = "none"
    /\ cfg = "nil"
    /\ cpc = "none"
    /\ tok = NilToken
    /\ tok0 = tok
    /\ logger = "nil"
    /\ tokenFile \in {AbsentFile, JSONFile(WellFormedDoc)}
    /\ ltpc = "none"
    /\ gpc = "none"
    /\ gerr = NotReturned
    /\ tret = <<>>
    /\ TokenFile = defaultTokenFile
    /\ UserInput = Reader(TRUE, <<>>)
    /\ credentials \in RunCredentialsSamples
    /\ saves = <<>>
    /\ log = <<>>
    /\ ApiIdle
    /\ ProcIdle
    /\ args \in ArgsSamples
    /\ rpc = "fromArgs"
    /\ rerr = NotReturned

RunOthers == <<listenerVars, handlerVars, recvd, shutdownVars, code, cerr, cpc,
               exchangeArg, exchangeRet, tokenFile, tok0, ltpc, localErr, lterr,
               rootVars, apiVars, procVars, args>>

\* app.fromArgs(args) and the choice of the debug logger
RunFromArgs ==
    /\ rpc = "fromArgs"
    /\ IF fromArgs(args) # Nil
       THEN rpc' = "returned" /\ rerr' = fromArgs(args)
       ELSE rpc' = "open" /\ UNCHANGED rerr
    /\ UNCHANGED <<RedirectServerPort, cfg, tok, logger, hc>>
    /\ UNCHANGED RunOthers

\* f, err := os.Open(app.credsFile)
RunOpenCredentials ==
    /\ rpc = "open"
    /\ IF credentials = "absent"
       THEN rpc' = "returned" /\ rerr' = OpenError
       ELSE rpc' = "newOAuth2" /\ UNCHANGED rerr
    /\ UNCHANGED <<RedirectServerPort, cfg, tok, logger, hc>>
    /\ UNCHANGED RunOthers

\* gmail.NewOAuth2(f, WithRedirectServerPort(...), WithTokenFile(...)): the
\* bytes of the file are stored unparsed, cfg and tok stay nil
RunNewOAuth2 ==
    /\ rpc = "newOAuth2"
    /\ IF credentials = "empty"
       THEN /\ rpc' = "returned"
            /\ rerr' = GoogleCfgEmptyError
            /\ UNCHANGED <<RedirectServerPort, logger>>
       ELSE /\ rpc' = "client"
            /\ RedirectServerPort' = args.port
            /\ logger' = "set"
            /\ UNCHANGED rerr
    /\ UNCHANGED <<cfg, tok, hc>>
    /\ UNCHANGED RunOthers

\* hc, err := gmailOauth.Client(); with a client Run goes on to build the
\* finder and the sender and to process the alerts
RunClient ==
    /\ rpc = "client"
    /\ hc' = IF cfg = "nil" THEN <<[client |-> NilToken, err |-> CfgNilError]>>
             ELSE IF tok = NilToken THEN <<[client |-> NilToken, err |-> TokNilError]>>
             ELSE <<[client |-> tok, err |-> Nil]>>
    /\ IF hc'[1].err # Nil
       THEN rpc' = "returned" /\ rerr' = hc'[1].err
       ELSE rpc' = "process" /\ UNCHANGED rerr
    /\ UNCHANGED <<RedirectServerPort, cfg, tok, logger>>
    /\ UNCHANGED RunOthers

NextRun ==
    \/ RunFromArgs
    \/ RunOpenCredentials
    \/ RunNewOAuth2
    \/ RunClient

SpecRun == InitRun /\ [][NextRun]_vars

\* C33: in cli.Run OAuth2.Client() is called only after LoadConfig and
\* LoadToken have succeeded, that is with the configuration and the token of
\* the OAuth2 value both loaded.
ClientCalledAfterLoads ==
    hc # <<>> => (cfg = "loaded" /\ tok # NilToken)

\* ------------------------------------ loadRemoteToken under fair scheduling

\* every goroutine of the program that can take a step eventually takes one;
\* nothing obliges a browser to send a request
FairRemote ==
    /\ WF_vars(LoadRemoteTokenStart \/ AuthCodeURL \/ SelectAuthCode \/ SelectError
               \/ Exchange \/ RunDeferred \/ LoadRemoteTokenReturn)
    /\ WF_vars(ListenAndServe \/ ListenAndServeReturn)
    /\ \A r \in Requests : WF_vars(HandlerSend(r))
    /\ \A s \in ShutdownCallers :
          WF_vars(CloseAuthCodeErrors(s) \/ CloseAuthCodes(s) \/ SvrShutdown(s)
                  \/ SvrShutdownReturn(s))

SpecRemoteFair == InitRemote /\ [][NextRemote]_vars /\ FairRemote

\* C34: once the ListenAndServe spawned by loadRemoteToken has returned an
\* error, loadRemoteToken eventually returns an error to its caller.
ListenerFailureEndsRemoteLoad ==
    (lasRet # <<>> /\ lasRet[1].ret # Nil) ~> (cpc = "returned" /\ cerr # Nil)

\* ------------------------------------------- the Handler on every request

\* every combination of a method, a state parameter and a code parameter
AllRequests ==
    {Rq(m, st, c) : m \in {"GET", "HEAD", "POST"},
                    st \in {<<>>, <<"other">>, <<"state-token">>},
                    c \in {<<>>, <<"">>, <<"abc">>}}

\* a Handler that looks at the state parameter before the method
HandlerStateFirst(rq) ==
    IF Get(rq.state) # StateToken
    THEN [status |-> StatusBadRequest, sends |-> <<ErrSignal(StateError)>>]
    ELSE IF rq.method # "GET"
    THEN [status |-> StatusMethodNotAllowed,
          sends |-> <<ErrSignal(MethodError(rq.method))>>]
    ELSE IF Get(rq.code) = ""
    THEN [status |-> StatusBadRequest, sends |-> <<ErrSignal(CodeError)>>]
    ELSE [status |-> StatusOK, sends |-> <<CodeSignal(Get(rq.code))>>]

\* the serving of a request by a Handler that checks the state first
ServeStateFirst(r) ==
    /\ hpc[r] = "idle"
    /\ \A q \in Requests : q < r => hpc[q] = "done"
    /\ authCodes.buf = <<>> /\ authCodeErrors.buf = <<>>
    /\ svr = "listening"
    /\ \E rq \in AllRequests :
         LET h == HandlerStateFirst(rq)
         IN  /\ req' = [req EXCEPT ![r] = rq]
             /\ status' = [status EXCEPT ![r] = h.status]
             /\ plan' = [plan EXCEPT ![r] = h.sends]
             /\ hpc' = [hpc EXCEPT ![r] = IF h.sends = <<>> THEN "done" ELSE "send"]
    /\ UNCHANGED <<listenerVars, sent, recvd, shutdownVars, coordVars, loadVars, rootVars>>
    /\ UNCHANGED <<apiVars, procVars, runVars>>

\* the serving of any request by the Handler, once the requests before it
\* have been handled and their signals received
Serve(r) ==
    /\ hpc[r] = "idle"
    /\ \A q \in Requests : q < r => hpc[q] = "done"
    /\ authCodes.buf = <<>> /\ authCodeErrors.buf = <<>>
    /\ svr = "listening"
    /\ \E rq \in AllRequests :
         LET h == Handler(rq)
         IN  /\ req' = [req EXCEPT ![r] = rq]
             /\ status' = [status EXCEPT ![r] = h.status]
             /\ plan' = [plan EXCEPT ![r] = h.sends]
             /\ hpc' = [hpc EXCEPT ![r] = IF h.sends = <<>> THEN "done" ELSE "send"]
    /\ UNCHANGED <<listenerVars, sent, recvd, shutdownVars, coordVars, loadVars, rootVars>>
    /\ UNCHANGED <<apiVars, procVars, runVars>>

NextHandler ==
    \/ ListenAndServe
    \/ \E r \in Requests : Serve(r)
    \/ \E r \in Requests : HandlerSend(r)
    \/ RecvAuthCode
    \/ RecvError

SpecHandler == Init /\ [][NextHandler]_vars

\* the first check a request fails, in the order method, state, code
FirstFailingCheck(rq) ==
    IF rq.method # "GET" THEN "method"
    ELSE IF Get(rq.state) # "state-token" THEN "state"
    ELSE IF Get(rq.code) = "" THEN "code"
    ELSE "none"

\* C35: every request whose Handler has returned got one response and one
\* signal on one sink, both fixed by the first check the request fails in the
\* order method, state, code: 405 and the method error, 400 and the state
\* error, 400 and the code error, or 200 and the code on the auth-code sink.
FirstFailingCheckDecides ==
    \A r \in Requests :
        hpc[r] = "done" =>
            /\ status[r] # NoStatus
            /\ Len(sent[r]) = 1
            /\ plan[r] = <<>>
            /\ LET f == FirstFailingCheck(req[r])
                   sig == sent[r][1]
               IN  /\ f = "method" => /\ status[r] = 405
                                      /\ sig = ErrSignal(MethodError(req[r].method))
                   /\ f = "state" => status[r] = 400 /\ sig = ErrSignal(StateError)
                   /\ f = "code" => status[r] = 400 /\ sig = ErrSignal(CodeError)
                   /\ f = "none" => /\ status[r] = 200
                                    /\ sig = CodeSignal(Get(req[r].code))
                   /\ sig.sink = (IF f = "none" THEN "authCodes" ELSE "authCodeErrors")

PostWithoutStateGotMethodError ==
    /\ hpc[1] = "done"
    /\ req[1] = Rq("POST", <<>>, <<>>)
    /\ status[1] = 405
    /\ sent[1] = <<ErrSignal(MethodError("POST"))>>

\* C38: with a redirect port outside 1024-65535, loadRemoteToken only ever
\* returns the construction error: no server and no listener exist, the
\* authorization URL is never reached, Shutdown is never called and the stored
\* token stays what it was.
BadPortReturnsBeforeAnything ==
    ~(RedirectServerPort \in 1024..65535) =>
        /\ cpc \in {"start", "returned"}
        /\ cpc = "returned" => cerr = PortError
        /\ Port = 0
        /\ las = "none"
        /\ svr = "new"
        /\ shutdownCalls = 0
        /\ \A s \in ShutdownCallers : spc[s] = "idle"
        /\ tok = tok0

BadPortKeptStoredToken ==
    /\ RedirectServerPort = 65536
    /\ cpc = "returned"
    /\ cerr = PortError
    /\ tok # NilToken
    /\ tok = tok0
    /\ las = "none"
    /\ shutdownCalls = 0

\* C39: in token(), the line reporting that the credential was written to the
\* token file is logged only when saveToken returned nil: after a failed save
\* the failure is logged and no success line for the write is.
WriteSuccessLoggedOnlyAfterSave ==
    /\ (\E i \in DOMAIN log : log[i] = "successfully wrote gmail oauth2 token to file")
          => (saves # <<>> /\ saves[Len(saves)].err = Nil)
    /\ (saves # <<>> /\ saves[Len(saves)].err # Nil)
          => \E i \in DOMAIN log : log[i] = "got error saving token to file"
====
